---- MODULE Spec2Model ----
(***************************************************************************)
(* The property-evaluation backend of muve: the POST /api/analyzeProperty  *)
(* handler, the background orchestrator processPropertyBackground and the  *)
(* stages it sequences, and the `evaluations` table they write.            *)
(*                                                                         *)
(* Every `await` of the source is a suspension point.  An action of this   *)
(* module is the code that runs between two suspension points: it consumes *)
(* the outcome of the awaited external call (drawn with \E from a small    *)
(* set) and runs the synchronous code up to the next await.                *)
(*                                                                         *)
(* A write to the table goes through supabase-js, whose query builder      *)
(* resolves to {data, error} and does not throw; the source discards the   *)
(* result of every update, so a rejected update is silently lost.          *)
(***************************************************************************)
EXTENDS Integers, Sequences, FiniteSets, TLC

\* ------------------------------------------------------------------------
\* Bounds of the model
\* ------------------------------------------------------------------------
\* longest checklist, in words, of the checklists with any wording
MaxChecklistWords == 4
\* largest number of changes of the sessionId prop of a mounted AnalysisPage
MaxSessionChanges == 1
\* longest list of image URLs found on a listing page (before deduplication)
MaxExtracted == 2
\* largest number of result objects in one analyzer response
MaxResults == 2
\* largest number of distinct photo URLs on a page with many photos
MaxPageUrls == 32

\* ------------------------------------------------------------------------
\* Program constants
\* ------------------------------------------------------------------------
BATCH_SIZE == 1
IMAGE_LIMIT == 30

\* ------------------------------------------------------------------------
\* Values
\* ------------------------------------------------------------------------
\* the HTTP clients; each issues at most one POST /api/analyzeProperty
Clients == {"c1", "c2"}

\* SQL NULL / a column that holds a value
Null == [isNull |-> TRUE]
Val(v) == [isNull |-> FALSE, v |-> v]

\* JavaScript values that reach a column: undefined, null, numbers, strings.
\* A string is either a short literal (s) or a text of tokens (raw).
JUndef == [t |-> "undefined", n |-> 0, s |-> "", raw |-> <<>>]
JNull == [t |-> "null", n |-> 0, s |-> "", raw |-> <<>>]
JInt(n) == [t |-> "int", n |-> n, s |-> "", raw |-> <<>>]
\* a number with a fractional part; n is its integer part
JFrac(n) == [t |-> "frac", n |-> n, s |-> "", raw |-> <<>>]
JStr(s) == [t |-> "string", n |-> 0, s |-> s, raw |-> <<>>]
JText(toks) == [t |-> "string", n |-> 0, s |-> "", raw |-> toks]

\* a text is non-empty when it has at least one character
NonEmptyText(j) == j.t = "string" /\ (j.s # "" \/ j.raw # <<>>)

\* JavaScript truthiness of a request field ("" models a missing field)
Truthy(x) == x # ""

Min(a, b) == IF a < b THEN a ELSE b

IsPrefix(s, t) == Len(s) <= Len(t) /\ SubSeq(t, 1, Len(s)) = s

\* ------------------------------------------------------------------------
\* Texts returned by the generative model
\* ------------------------------------------------------------------------
\* A response text is a sequence of tokens: a code fence (three backticks),
\* the word json, white space, prose, or one JSON document.  A document is
\* written as the value JSON.parse returns for it: null, a number, an array
\* of items, or an object with (possibly missing) score and summary.
NoDoc == [kind |-> "none", score |-> JUndef, summary |-> JUndef, items |-> <<>>]
JsonNullDoc == [kind |-> "null", score |-> JUndef, summary |-> JUndef, items |-> <<>>]
JsonNumberDoc == [kind |-> "number", score |-> JUndef, summary |-> JUndef, items |-> <<>>]
ObjectDoc(score, summary) == [kind |-> "object", score |-> score, summary |-> summary, items |-> <<>>]
ArrayDoc(items) == [kind |-> "array", score |-> JUndef, summary |-> JUndef, items |-> items]

Fence == [k |-> "fence", doc |-> NoDoc]
JsonWord == [k |-> "json", doc |-> NoDoc]
Space == [k |-> "space", doc |-> NoDoc]
Prose == [k |-> "prose", doc |-> NoDoc]
Doc(d) == [k |-> "doc", doc |-> d]

StartsWithFenceJson(t) == Len(t) >= 2 /\ t[1] = Fence /\ t[2] = JsonWord
StartsWithFence(t) == Len(t) >= 1 /\ t[1] = Fence
EndsWithFence(t) == Len(t) >= 1 /\ t[Len(t)] = Fence

RECURSIVE Trim(_)
Trim(t) ==
    IF t = <<>> THEN t
    ELSE IF Head(t) = Space THEN Trim(Tail(t))
    ELSE IF t[Len(t)] = Space THEN Trim(SubSeq(t, 1, Len(t) - 1))
    ELSE t

\* JSON.parse accepts exactly one document; anything else is a SyntaxError
Parses(t) == Len(t) = 1 /\ t[1].k = "doc"

\* parseSummaryResponse: strip a leading ```json, a leading ```, a trailing
\* ```, trim, JSON.parse; on a SyntaxError fall back to the raw text
CleanSummaryText(rawText) ==
    LET a == IF StartsWithFenceJson(rawText) THEN SubSeq(rawText, 3, Len(rawText)) ELSE rawText
        b == IF StartsWithFence(a) THEN Tail(a) ELSE a
        c == IF EndsWithFence(b) THEN SubSeq(b, 1, Len(b) - 1) ELSE b
    IN Trim(c)

parseSummaryResponse(rawText) ==
    LET cleanText == CleanSummaryText(rawText)
    IN IF Parses(cleanText)
          THEN cleanText[1].doc
          ELSE ObjectDoc(JNull, JText(rawText))

\* ------------------------------------------------------------------------
\* Listing page
\* ------------------------------------------------------------------------
Urls == {"u1", "u2"}

RECURSIVE SeqsUpTo(_, _)
SeqsUpTo(S, n) ==
    IF n = 0 THEN {<<>>}
    ELSE LET shorter == SeqsUpTo(S, n - 1)
         IN shorter \cup {Append(q, x) : q \in {r \in shorter : Len(r) = n - 1}, x \in S}

\* the URLs a loaded page yields, in document order, duplicates included
ExtractedLists == SeqsUpTo(Urls, MaxExtracted)

\* URL number k of a page with many photos
PageUrl(k) == "u" \o ToString(k)

\* pages with many photos: n URLs added, cycling with a stride through the
\* first m photo URLs, so that a URL is added again when n > m
LongLists ==
    {[k \in 1..n |-> PageUrl((((k - 1) * stride) % m) + 1)] :
        n \in (IMAGE_LIMIT - 1)..(MaxPageUrls + 1),
        m \in {2, IMAGE_LIMIT - 1, IMAGE_LIMIT, MaxPageUrls},
        stride \in {1, 3}}

\* insertion into a Set keeps the first occurrence of each URL
RECURSIVE AddAll(_, _)
AddAll(imagesSet, q) ==
    IF q = <<>> THEN imagesSet
    ELSE AddAll(IF \E k \in 1..Len(imagesSet) : imagesSet[k] = Head(q)
                   THEN imagesSet
                   ELSE Append(imagesSet, Head(q)),
                Tail(q))

SetOrder(q) ==
    AddAll(<<>>, q)

\* Array.from(imagesSet) without the slice
AllOfPage(extracted) ==
    SetOrder(extracted)

\* Array.from(imagesSet).slice(0, 30)
ImagesOfPage(extracted) ==
    LET all == SetOrder(extracted)
    IN SubSeq(all, 1, Min(Len(all), IMAGE_LIMIT))

\* ------------------------------------------------------------------------
\* Batch analysis: analyzeSingleBatch
\* ------------------------------------------------------------------------
\* a trigger string is a sequence of characters
NoneTrigger == <<"N", "o", "n", "e">>

\* String.prototype.split(','): the pieces between the commas
RECURSIVE SplitComma(_, _)
SplitComma(chars, piece) ==
    IF chars = <<>> THEN <<piece>>
    ELSE IF Head(chars) = "," THEN <<piece>> \o SplitComma(Tail(chars), <<>>)
    ELSE SplitComma(Tail(chars), Append(piece, Head(chars)))

RECURSIVE TrimChars(_)
TrimChars(t) ==
    IF t = <<>> THEN t
    ELSE IF Head(t) = " " THEN TrimChars(Tail(t))
    ELSE IF t[Len(t)] = " " THEN TrimChars(SubSeq(t, 1, Len(t) - 1))
    ELSE t

\* result.trigger.split(',').map(t => t.trim()).filter(t => t.length > 0)
TriggerList(chars) ==
    LET pieces == SplitComma(chars, <<>>)
        trimmed == [k \in 1..Len(pieces) |-> TrimChars(pieces[k])]
    IN SelectSeq(trimmed, LAMBDA t : Len(t) > 0)

JTruthy(j) ==
    CASE j.t = "undefined" -> FALSE
      [] j.t = "null" -> FALSE
      [] j.t = "int" -> j.n # 0
      [] j.t = "frac" -> TRUE
      [] OTHER -> NonEmptyText(j)

\* one element of the analyzer's array: its trigger property (a string, or
\* missing) and its pixel_coordinates property
Item(hasTrigger, chars, pixel) ==
    [hasTrigger |-> hasTrigger, trigger |-> chars, pixel_coordinates |-> pixel]

\* the entry built for the item at (0-based) position index
MapResult(imageUrls, item, index) ==
    [image_url |-> (IF index + 1 <= Len(imageUrls) THEN imageUrls[index + 1] ELSE "undefined"),
     trigger_found |-> (IF item.trigger # NoneTrigger THEN Val(TriggerList(item.trigger)) ELSE Null),
     pixel_coordinates |-> (IF JTruthy(item.pixel_coordinates) THEN item.pixel_coordinates ELSE JNull)]

\* .replace(/```json/g, '').replace(/```/g, '')
RECURSIVE StripFences(_)
StripFences(t) ==
    IF t = <<>> THEN t
    ELSE IF StartsWithFenceJson(t) THEN StripFences(SubSeq(t, 3, Len(t)))
    ELSE IF Head(t) = Fence THEN StripFences(Tail(t))
    ELSE <<Head(t)>> \o StripFences(Tail(t))

\* analyzeSingleBatch on the analysis text imageinGroups returned: the
\* entries it returns, or threw = TRUE when JSON.parse, .map or .split throws
analyzeSingleBatch(imageUrls, analysis) ==
    LET cleanedAnalysis == Trim(StripFences(analysis))
        parsedResults == IF Parses(cleanedAnalysis) THEN cleanedAnalysis[1].doc ELSE NoDoc
        items == parsedResults.items
    IN IF parsedResults.kind # "array" \/ \E k \in 1..Len(items) : ~items[k].hasTrigger
          THEN [threw |-> TRUE, results |-> <<>>]
          ELSE [threw |-> FALSE,
                results |-> [k \in 1..Len(items) |-> MapResult(imageUrls, items[k], k - 1)]]

\* the text imageinGroups falls back to when fetching or the model call throws
EmptyAnalysis == <<Doc(ArrayDoc(<<>>))>>

\* ------------------------------------------------------------------------
\* Checklist text and parseSpecialtyFlags
\* ------------------------------------------------------------------------
\* A checklist is a sequence of words; "\n" is a line break and "MARKER" /
\* "marker" are the text SPECIALTY_CHECKS: in upper and in lower case.
IsMarker(w) == w \in {"MARKER", "marker"}

\* the words of kinds named in the source, lower-cased, that word w contains
\* as a substring ("stairs" contains "air")
Contains(w, sub) ==
    CASE w \in {"elevation", "ELEVATION"} -> sub = "elevation"
      [] w = "proximity" -> sub = "proximity"
      [] w = "pollution" -> sub = "pollution"
      [] w = "lighting" -> sub = "lighting"
      [] w = "streetlight" -> sub = "streetlight"
      [] w = "vision" -> sub = "vision"
      [] w = "sidewalk" -> sub = "sidewalk"
      [] w = "air quality" -> sub = "air"
      [] w = "airquality" -> sub \in {"air", "airquality"}
      [] w = "stairs" -> sub = "air"
      [] w = "emergency" -> sub = "emergency"
      [] OTHER -> FALSE

\* /SPECIALTY_CHECKS:\s*(.+)/i : the first marker that is followed, after
\* any white space (line breaks included), by a word; the capture is the
\* rest of that word's line.  <<>> when nothing matches.
MatchTokens(checklist) ==
    LET n == Len(checklist)
        starts == {m \in 1..n : /\ IsMarker(checklist[m])
                                /\ \E j \in (m + 1)..n : checklist[j] # "\n"}
    IN IF starts = {} THEN <<>>
       ELSE LET m == CHOOSE x \in starts : \A y \in starts : x <= y
                j == CHOOSE x \in (m + 1)..n :
                        /\ checklist[x] # "\n"
                        /\ \A y \in (m + 1)..(x - 1) : checklist[y] = "\n"
                ends == {e \in j..n : e = n \/ checklist[e + 1] = "\n"}
                e == CHOOSE x \in ends : \A y \in ends : x <= y
            IN SubSeq(checklist, j, e)

Includes(tokens, sub) == \E k \in 1..Len(tokens) : Contains(tokens[k], sub)

parseSpecialtyFlags(checklist) ==
    LET tokens == MatchTokens(checklist)
    IN [elevation |-> Includes(tokens, "elevation"),
        proximity |-> Includes(tokens, "proximity"),
        pollution |-> Includes(tokens, "pollution"),
        streetLighting |-> \/ Includes(tokens, "lighting")
                           \/ Includes(tokens, "streetlight")
                           \/ Includes(tokens, "vision"),
        sidewalk |-> Includes(tokens, "sidewalk"),
        airQuality |-> Includes(tokens, "air") \/ Includes(tokens, "airquality"),
        emergencyServices |-> Includes(tokens, "emergency")]

\* the order in which runSpecialtyChecks pushes its tasks
CheckKinds ==
    <<"elevation", "proximity", "pollution", "streetLighting", "sidewalk",
      "airQuality", "emergencyServices">>

Category(kind) ==
    CASE kind = "elevation" -> "Elevation & Terrain"
      [] kind = "proximity" -> "Nearby Services & Transit"
      [] kind = "pollution" -> "Noise & Light Pollution"
      [] kind = "streetLighting" -> "Street Lighting"
      [] kind = "sidewalk" -> "Sidewalk & Pedestrian Infrastructure"
      [] kind = "airQuality" -> "Air Quality"
      [] OTHER -> "Emergency Services Proximity"

\* ------------------------------------------------------------------------
\* What the external services may answer
\* ------------------------------------------------------------------------
\* checklists the model may generate
ChecklistTexts ==
    {<<"stairs">>,
     <<"stairs", "\n", "MARKER", "elevation", "pollution">>,
     <<"stairs", "\n", "MARKER", "lighting">>}

\* element k of an analyzer array: a trigger on odd positions, 'None' on even
FoundItem(k) ==
    IF k % 2 = 1 THEN Item(TRUE, <<"s", ",", " ", "d">>, JStr("[12,34]"))
                 ELSE Item(TRUE, NoneTrigger, JNull)

AnalyzerArrays ==
    {[k \in 1..n |-> FoundItem(k)] : n \in 0..MaxResults}
        \cup {<<Item(TRUE, NoneTrigger, JNull)>>, <<Item(FALSE, <<>>, JNull)>>,
              <<Item(TRUE, <<",", " ">>, JNull)>>}

\* analysis texts the vision model may return
AnalyzerTexts ==
    {<<Doc(ArrayDoc(a))>> : a \in AnalyzerArrays}
        \cup {<<Fence, JsonWord, Space, Doc(ArrayDoc(<<FoundItem(1)>>)), Space, Fence>>,
              <<Prose>>,
              <<Doc(JsonNullDoc)>>}

ScoreDocs ==
    {ObjectDoc(JInt(85), JStr("ok")),
     ObjectDoc(JInt(150), JStr("ok")),
     ObjectDoc(JFrac(85), JStr("ok")),
     ObjectDoc(JInt(85), JUndef),
     ObjectDoc(JInt(85), JStr("")),
     ObjectDoc(JUndef, JStr("ok")),
     JsonNullDoc,
     JsonNumberDoc}

\* texts the model may return to the scoring prompt
ScoringTexts ==
    {<<Doc(d)>> : d \in ScoreDocs}
        \cup {<<Fence, JsonWord, Space, Doc(ObjectDoc(JInt(85), JStr("ok"))), Space, Fence>>,
              <<Fence, Doc(ObjectDoc(JInt(85), JStr("ok"))), Fence>>,
              <<Space, Fence, JsonWord, Doc(ObjectDoc(JInt(85), JStr("ok"))), Fence>>,
              <<Prose>>,
              <<>>}

GenericError == JStr("An error occurred during processing.")

VARIABLES
    pc,             \* position of each client's request / background job
    body,           \* req.body of the POST
    response,       \* the HTTP response sent by the handler
    evaluations,    \* the `evaluations` table: row id = index
    job,            \* arguments and locals of processPropertyBackground
    chrome,         \* the browser process launched by puppeteer
    calls,          \* history: number of external calls issued, per kind
    thrown,         \* history: the stage whose exception reached the catch
    page            \* the AnalysisPage component of the frontend and its poll chains

vars == <<pc, body, response, evaluations, job, chrome, calls, thrown, page>>

\* the variables of the backend
server == <<pc, body, response, evaluations, job, chrome, calls, thrown>>

\* the clients that submit in Spec
Submitters == {"c1"}

NoResponse == [code |-> 0, sessionId |-> 0]

\* the flags before parseSpecialtyFlags has run
NoFlags ==
    [elevation |-> FALSE, proximity |-> FALSE, pollution |-> FALSE, streetLighting |-> FALSE,
     sidewalk |-> FALSE, airQuality |-> FALSE, emergencyServices |-> FALSE]

\* no scoring request built yet
NoPrompt == [userNeeds |-> "", issuesSummary |-> <<>>, specialtySection |-> <<>>]

NoJob ==
    [sessionId |-> 0, checklist |-> <<>>, browser |-> "null",
     propertyImages |-> <<>>, i |-> 0, fetched |-> <<>>,
     extracted |-> <<>>, accumulatedResults |-> <<>>, coords |-> "none", tasks |-> <<>>,
     specialtyFlags |-> NoFlags, specialtyResults |-> <<>>, summaryPrompt |-> NoPrompt,
     rawSummaryText |-> <<>>, finalSummary |-> NoDoc]

NoCalls ==
    [checklist |-> 0, launch |-> 0, analyzer |-> 0, geocode |-> 0,
     check |-> 0, scoring |-> 0]

\* the row inserted by the handler; the other columns default to NULL
NewRow(b) ==
    [address |-> (IF Truthy(b.address) THEN b.address ELSE b.url),
     user_needs |-> b.userNeeds,
     status |-> "processing",
     accessibility_checklist |-> Null,
     image_results |-> Null,
     specialty_results |-> Null,
     final_score |-> Null,
     final_summary |-> Null]

\* no record received yet
NoData == [id |-> 0, status |-> "none"]

\* the component before it is mounted: useState(null), useRef(true),
\* useRef(false), no timer, no effect run
NoPage ==
    [mounted |-> "no", sessionId |-> 0, pollingRef |-> TRUE, completeFiredRef |-> FALSE,
     completeTimer |-> NoData, sessionData |-> NoData, chains |-> <<>>,
     onCompleteCalls |-> <<>>]

Bodies == [address : {"", "addr"}, url : {"", "url"}, userNeeds : {"", "needs"}]

\* the guard with its disjunction turned into a conjunction
MissingFieldsConj(b) == ~Truthy(b.userNeeds) /\ (~Truthy(b.address) /\ ~Truthy(b.url))

\* the guard of the handler: the request is rejected when it holds
MissingFields(b) == ~Truthy(b.userNeeds) \/ (~Truthy(b.address) /\ ~Truthy(b.url))

Init ==
    /\ pc = [c \in Clients |-> "idle"]
    /\ body = [c \in Clients |-> [address |-> "", url |-> "", userNeeds |-> ""]]
    /\ response = [c \in Clients |-> NoResponse]
    /\ evaluations = <<>>
    /\ job = [c \in Clients |-> NoJob]
    /\ chrome = [c \in Clients |-> "none"]
    /\ calls = [c \in Clients |-> NoCalls]
    /\ thrown = [c \in Clients |-> "none"]
    /\ page = NoPage

\* ------------------------------------------------------------------------
\* Helpers of the actions
\* ------------------------------------------------------------------------
\* one step of client c's job: its new position, locals, table, browser
\* process and history
Step(c, label, j, rows, ch, cl, th) ==
    /\ pc' = [pc EXCEPT ![c] = label]
    /\ job' = [job EXCEPT ![c] = j]
    /\ evaluations' = rows
    /\ chrome' = [chrome EXCEPT ![c] = ch]
    /\ calls' = [calls EXCEPT ![c] = cl]
    /\ thrown' = [thrown EXCEPT ![c] = th]
    /\ UNCHANGED <<body, response, page>>

Count(c, kind) == [calls[c] EXCEPT ![kind] = @ + 1]

\* an update sent without its filter on the id: every row is updated
SetColAll(rows, id, col, v) ==
    [r \in DOMAIN rows |-> [rows[r] EXCEPT ![col] = v]]

\* supabase.from('evaluations').update({col: v}).eq('id', id), when applied
SetCol(rows, id, col, v) ==
    [rows EXCEPT ![id][col] = v]

\* an exception reaches the catch of processPropertyBackground, which calls
\* updateSessionStatus(sessionId, 'error', ...) and awaits its update
Throw(c, stage) ==
    Step(c, "error_write", job[c], evaluations, chrome[c], calls[c], stage)

\* updateSessionStatus(sessionId, status, summary): the update it sends
updateSessionStatus(rows, id, status, summary) ==
    LET withStatus == SetCol(rows, id, "status", status)
    IN IF JTruthy(summary) THEN SetCol(withStatus, id, "final_summary", Val(summary))
                           ELSE withStatus

\* the update of generateFinalSummary; JSON.stringify drops undefined values
FinalUpdate(rows, id, finalSummary) ==
    LET r1 == IF finalSummary.score.t = "undefined" THEN rows
              ELSE SetCol(rows, id, "final_score",
                          IF finalSummary.score.t = "null" THEN Null ELSE Val(finalSummary.score))
        r2 == IF finalSummary.summary.t = "undefined" THEN r1
              ELSE SetCol(r1, id, "final_summary",
                          IF finalSummary.summary.t = "null" THEN Null ELSE Val(finalSummary.summary))
    IN SetCol(r2, id, "status", "completed")

\* Array.prototype.flat on a list of lists
RECURSIVE Flat(_)
Flat(lists) ==
    IF lists = <<>> THEN <<>> ELSE Head(lists) \o Flat(Tail(lists))

\* Array.prototype.join(', ') on a list of strings
RECURSIVE JoinComma(_)
JoinComma(strings) ==
    IF strings = <<>> THEN <<>>
    ELSE IF Len(strings) = 1 THEN strings[1]
    ELSE strings[1] \o <<",", " ">> \o JoinComma(Tail(strings))

NoIssuesText == <<"No major issues found.">>

\* the issues with every repeated trigger dropped
IssuesFoundDistinct(imageResults) ==
    LET triggers == [k \in 1..Len(imageResults) |-> imageResults[k].trigger_found]
        lists == SelectSeq(triggers, LAMBDA t : ~t.isNull)
    IN SetOrder(Flat([k \in 1..Len(lists) |-> lists[k].v]))

\* imageResults.map(img => img.trigger_found).filter(t => t !== null).flat()
IssuesFound(imageResults) ==
    LET triggers == [k \in 1..Len(imageResults) |-> imageResults[k].trigger_found]
        lists == SelectSeq(triggers, LAMBDA t : ~t.isNull)
    IN Flat([k \in 1..Len(lists) |-> lists[k].v])

\* the parts of summaryPrompt that depend on the job: the user needs, the
\* issues text and the lines of the specialty section
SummaryPrompt(imageResults, userNeeds, specialtyResults) ==
    LET issuesFound == IssuesFound(imageResults)
    IN [userNeeds |-> userNeeds,
        issuesSummary |-> IF Len(issuesFound) > 0 THEN JoinComma(issuesFound) ELSE NoIssuesText,
        specialtySection |-> [n \in 1..Len(specialtyResults) |->
                                <<specialtyResults[n].category, specialtyResults[n].findings>>]]

\* generateFinalSummary up to its model call: the prompt is built
Scoring(c, j) ==
    [j EXCEPT !.summaryPrompt =
        SummaryPrompt(j.accumulatedResults, body[c].userNeeds, j.specialtyResults)]

\* a fan-out entered whatever the flags are
NeedsSpecialtyAlways(checklist) == TRUE

\* the test of line 165 on the parsed flags
NeedsSpecialty(checklist) ==
    LET specialtyFlags == parseSpecialtyFlags(checklist)
    IN specialtyFlags.elevation \/ specialtyFlags.proximity \/ specialtyFlags.pollution

\* processPropertyBackground after analyzeImagesInBatches returned: either
\* runSpecialtyChecks starts and awaits geocodeAddress, or generateFinalSummary
\* starts and awaits the scoring call
AfterBatches(c, j, rows, ch) ==
    LET parsed == [j EXCEPT !.specialtyFlags = parseSpecialtyFlags(j.checklist)]
    IN IF NeedsSpecialty(j.checklist)
          THEN Step(c, "geocode", parsed, rows, ch, Count(c, "geocode"), thrown[c])
          ELSE Step(c, "score_call", Scoring(c, parsed), rows, ch, Count(c, "scoring"),
                    thrown[c])

TotalBatches(images) == (Len(images) + BATCH_SIZE - 1) \div BATCH_SIZE
BatchNum(i) == (i \div BATCH_SIZE) + 1
Batch(images, i) == SubSeq(images, i + 1, Min(i + BATCH_SIZE, Len(images)))

\* a loop that starts the next batch without the delay
AfterBatchNoDelay(c, j, rows) ==
    IF BatchNum(j.i) < TotalBatches(j.propertyImages)
       THEN Step(c, "fetch", [j EXCEPT !.i = @ + BATCH_SIZE], rows, chrome[c], calls[c],
                 thrown[c])
       ELSE AfterBatches(c, j, rows, chrome[c])

\* the end of one loop iteration of analyzeImagesInBatches
AfterBatch(c, j, rows) ==
    IF BatchNum(j.i) < TotalBatches(j.propertyImages)
       THEN Step(c, "delay", j, rows, chrome[c], calls[c], thrown[c])
       ELSE AfterBatches(c, j, rows, chrome[c])

\* ------------------------------------------------------------------------
\* POST /api/analyzeProperty
\* ------------------------------------------------------------------------
\* the handler up to its first await (the insert)
PostAnalyzeProperty(c) ==
    /\ pc[c] = "idle"
    /\ \E b \in Bodies :
        /\ body' = [body EXCEPT ![c] = b]
        /\ IF MissingFields(b)
              THEN /\ response' = [response EXCEPT ![c] = [code |-> 400, sessionId |-> 0]]
                   /\ pc' = [pc EXCEPT ![c] = "rejected"]
              ELSE /\ response' = response
                   /\ pc' = [pc EXCEPT ![c] = "insert"]
    /\ UNCHANGED <<evaluations, job, chrome, calls, thrown, page>>

\* the handler without its `if (sessionError) throw`: it answers with an id
\* and starts the job whether or not the row was inserted
InsertUnchecked(c) ==
    /\ pc[c] = "insert"
    /\ \E sessionError \in BOOLEAN :
        LET id == Len(evaluations) + 1
        IN /\ evaluations' = IF sessionError THEN evaluations
                                              ELSE Append(evaluations, NewRow(body[c]))
           /\ response' = [response EXCEPT ![c] = [code |-> 200, sessionId |-> id]]
           /\ job' = [job EXCEPT ![c] = [NoJob EXCEPT !.sessionId = id]]
           /\ calls' = [calls EXCEPT ![c] = Count(c, "checklist")]
           /\ pc' = [pc EXCEPT ![c] = "checklist_call"]
    /\ UNCHANGED <<body, chrome, thrown, page>>

\* the job started on the first row of the table instead of the inserted one
InsertStartsFirstRow(c) ==
    /\ pc[c] = "insert"
    /\ \E sessionError \in BOOLEAN :
        IF sessionError
           THEN /\ response' = [response EXCEPT ![c] = [code |-> 500, sessionId |-> 0]]
                /\ pc' = [pc EXCEPT ![c] = "failed"]
                /\ UNCHANGED <<evaluations, job, calls>>
           ELSE LET id == Len(evaluations) + 1
                IN /\ evaluations' = Append(evaluations, NewRow(body[c]))
                   /\ response' = [response EXCEPT ![c] = [code |-> 200, sessionId |-> id]]
                   /\ job' = [job EXCEPT ![c] = [NoJob EXCEPT !.sessionId = 1]]
                   /\ calls' = [calls EXCEPT ![c] = Count(c, "checklist")]
                   /\ pc' = [pc EXCEPT ![c] = "checklist_call"]
    /\ UNCHANGED <<body, chrome, thrown, page>>

\* the insert settles: on an error the handler answers 500; otherwise it
\* answers with the new id and calls processPropertyBackground, which runs
\* up to the model call of generateAccessibilityChecklist
InsertSettles(c) ==
    /\ pc[c] = "insert"
    /\ \E sessionError \in BOOLEAN :
        IF sessionError
           THEN /\ response' = [response EXCEPT ![c] = [code |-> 500, sessionId |-> 0]]
                /\ pc' = [pc EXCEPT ![c] = "failed"]
                /\ UNCHANGED <<evaluations, job, calls>>
           ELSE LET id == Len(evaluations) + 1
                IN /\ evaluations' = Append(evaluations, NewRow(body[c]))
                   /\ response' = [response EXCEPT ![c] = [code |-> 200, sessionId |-> id]]
                   /\ job' = [job EXCEPT ![c] = [NoJob EXCEPT !.sessionId = id]]
                   /\ calls' = [calls EXCEPT ![c] = Count(c, "checklist")]
                   /\ pc' = [pc EXCEPT ![c] = "checklist_call"]
    /\ UNCHANGED <<body, chrome, thrown, page>>

\* ------------------------------------------------------------------------
\* Step 1: generateAccessibilityChecklist
\* ------------------------------------------------------------------------
ChecklistReturnsFrom(c, texts) ==
    /\ pc[c] = "checklist_call"
    /\ \/ Throw(c, "checklist")
       \/ \E text \in texts :
            Step(c, "checklist_write", [job[c] EXCEPT !.checklist = text],
                 evaluations, chrome[c], calls[c], thrown[c])

ChecklistReturns(c) ==
    ChecklistReturnsFrom(c, ChecklistTexts)

\* the checklist update settles; puppeteer.launch is called
ChecklistSaved(c) ==
    /\ pc[c] = "checklist_write"
    /\ \E applied \in BOOLEAN :
        Step(c, "launch", job[c],
             IF applied
                THEN SetCol(evaluations, job[c].sessionId, "accessibility_checklist",
                            Val(job[c].checklist))
                ELSE evaluations,
             chrome[c], Count(c, "launch"), thrown[c])

\* ------------------------------------------------------------------------
\* Step 2: scrapePropertyImages
\* ------------------------------------------------------------------------
BrowserLaunched(c) ==
    /\ pc[c] = "launch"
    /\ \/ Throw(c, "launch")
       \/ Step(c, "new_page", [job[c] EXCEPT !.browser = "ref"], evaluations,
               "running", calls[c], thrown[c])

\* browser.newPage() and page.setUserAgent()
PageOpened(c) ==
    /\ pc[c] = "new_page"
    /\ \/ Throw(c, "scrape")
       \/ Step(c, IF ~Truthy(body[c].url) /\ Truthy(body[c].address) THEN "search" ELSE "load",
               job[c], evaluations, chrome[c], calls[c], thrown[c])

\* searchUrlFromAddress returns a URL, or null (its own errors included)
SearchReturns(c) ==
    /\ pc[c] = "search"
    /\ \E targetUrl \in {"", "listing"} :
        IF ~Truthy(targetUrl)
           THEN Throw(c, "scrape")
           ELSE Step(c, "load", job[c], evaluations, chrome[c], calls[c], thrown[c])

\* page.goto, the wait and page.content; then the images are collected and
\* processPropertyBackground awaits browser.close()
PageLoadedFrom(c, lists) ==
    /\ pc[c] = "load"
    /\ \/ Throw(c, "scrape")
       \/ \E extracted \in lists :
            Step(c, "close",
                 [job[c] EXCEPT !.extracted = extracted,
                                !.propertyImages = ImagesOfPage(extracted)],
                 evaluations, chrome[c], calls[c], thrown[c])

PageLoaded(c) ==
    PageLoadedFrom(c, ExtractedLists)

\* a batch loop whose body runs once before its condition is tested
BrowserClosedThenFetch(c) ==
    /\ pc[c] = "close"
    /\ \/ Throw(c, "close")
       \/ Step(c, "fetch", [job[c] EXCEPT !.browser = "null", !.extracted = <<>>, !.i = 0],
               evaluations, "closed", calls[c], thrown[c])

\* browser.close() settles; analyzeImagesInBatches starts: with no image
\* its loop is not entered, otherwise the images of the first batch are fetched
BrowserClosed(c) ==
    /\ pc[c] = "close"
    /\ \/ Throw(c, "close")
       \/ LET j == [job[c] EXCEPT !.browser = "null", !.extracted = <<>>, !.i = 0]
          IN IF j.i < Len(j.propertyImages)
                THEN Step(c, "fetch", j, evaluations, "closed", calls[c], thrown[c])
                ELSE AfterBatches(c, j, evaluations, "closed")

\* ------------------------------------------------------------------------
\* Step 3: analyzeImagesInBatches
\* ------------------------------------------------------------------------
\* imageinGroups: the fetches of the batch settle (a failed fetch is left
\* out of the parts); the vision model is called
ImagesFetched(c) ==
    /\ pc[c] = "fetch"
    /\ LET batch == Batch(job[c].propertyImages, job[c].i)
       IN \E ok \in SUBSET (1..Len(batch)) :
            Step(c, "analyze",
                 [job[c] EXCEPT !.fetched = SelectSeq(batch, LAMBDA u :
                                    \E k \in ok : batch[k] = u)],
                 evaluations, chrome[c], Count(c, "analyzer"), thrown[c])

\* the model call of imageinGroups settles (a throw yields the analysis
\* "[]"); analyzeSingleBatch parses it; the results are pushed and the
\* update is sent, or the exception is caught by the loop
AnalyzerReturns(c) ==
    /\ pc[c] = "analyze"
    /\ LET j == [job[c] EXCEPT !.fetched = <<>>]
       IN \/ Step(c, "analyzer_caught", j, evaluations, chrome[c], calls[c], thrown[c])
          \/ \E analysis \in AnalyzerTexts :
               LET out == analyzeSingleBatch(Batch(j.propertyImages, j.i), analysis)
               IN IF out.threw
                     THEN Step(c, "batch_caught", j, evaluations, chrome[c], calls[c], thrown[c])
                     ELSE Step(c, "batch_write",
                               [j EXCEPT !.accumulatedResults = @ \o out.results],
                               evaluations, chrome[c], calls[c], thrown[c])

\* the catch of imageinGroups has logged the error of the analyzer call and
\* returned the empty analysis, which analyzeSingleBatch parses
AnalyzerErrorReturned(c) ==
    /\ pc[c] = "analyzer_caught"
    /\ LET out == analyzeSingleBatch(Batch(job[c].propertyImages, job[c].i), EmptyAnalysis)
       IN Step(c, "batch_write", [job[c] EXCEPT !.accumulatedResults = @ \o out.results],
               evaluations, chrome[c], calls[c], thrown[c])

\* a batch that throws every time
BatchErrorRethrown(c) ==
    /\ pc[c] = "batch_caught"
    /\ Throw(c, "batch")

\* a failed batch is run again
BatchErrorRetried(c) ==
    /\ pc[c] = "batch_caught"
    /\ Step(c, "fetch", job[c], evaluations, chrome[c], calls[c], thrown[c])

\* the catch of the batch loop has logged the error of the batch; the loop
\* goes on
BatchErrorLogged(c) ==
    /\ pc[c] = "batch_caught"
    /\ AfterBatch(c, job[c], evaluations)

\* an update that stores the results of the last batch only
ImageResultsReplace(rows, id, accumulatedResults) ==
    SetCol(rows, id, "image_results",
           Val(IF accumulatedResults = <<>> THEN <<>>
               ELSE <<accumulatedResults[Len(accumulatedResults)]>>))

\* what the update of image_results stores
ImageResultsUpdate(rows, id, accumulatedResults) ==
    SetCol(rows, id, "image_results", Val(accumulatedResults))

\* the update of image_results settles
BatchSaved(c) ==
    /\ pc[c] = "batch_write"
    /\ \E applied \in BOOLEAN :
        AfterBatch(c, job[c],
                   IF applied
                      THEN ImageResultsUpdate(evaluations, job[c].sessionId,
                                              job[c].accumulatedResults)
                      ELSE evaluations)

\* the inter-batch delay elapses; the next batch is fetched
DelayElapsed(c) ==
    /\ pc[c] = "delay"
    /\ Step(c, "fetch", [job[c] EXCEPT !.i = @ + BATCH_SIZE], evaluations,
            chrome[c], calls[c], thrown[c])

\* ------------------------------------------------------------------------
\* Step 3.5: runSpecialtyChecks
\* ------------------------------------------------------------------------
\* the coordinates geocodeAddress may resolve an address to
Coordinates == {"p1", "p2"}

\* tasks whose elevation check geocodes the address again on its own
TasksGeocodingAgain(flags, coords) ==
    LET wanted == SelectSeq(CheckKinds, LAMBDA k : flags[k])
    IN [n \in 1..Len(wanted) |->
            [kind |-> wanted[n],
             coords |-> IF wanted[n] = "elevation"
                           THEN CHOOSE p \in Coordinates : p # coords
                           ELSE coords,
             state |-> "data", dataFailed |-> FALSE]]

\* the tasks pushed for the flags, in the order of the source; every check
\* is called with the coords of runSpecialtyChecks
TasksFor(flags, coords) ==
    LET wanted == SelectSeq(CheckKinds, LAMBDA k : flags[k])
    IN [n \in 1..Len(wanted) |->
            [kind |-> wanted[n], coords |-> coords, state |-> "data", dataFailed |-> FALSE]]

Settled(task) == task.state \in {"fulfilled", "rejected"}

\* one entry per task, whatever its outcome
AllResults(tasks) ==
    [n \in 1..Len(tasks) |-> [category |-> Category(tasks[n].kind), findings |-> "findings"]]

\* outcome.value of the fulfilled tasks, in task order
FulfilledResults(tasks) ==
    LET done == SelectSeq(tasks, LAMBDA t : t.state = "fulfilled")
    IN [n \in 1..Len(done) |-> [category |-> Category(done[n].kind), findings |-> "findings"]]

\* geocodeAddress settles: on a failure, or when no task was pushed,
\* runSpecialtyChecks returns [] and the update of specialty_results is sent;
\* otherwise the pushed checks are running
GeocodeReturns(c) ==
    /\ pc[c] = "geocode"
    /\ \/ Step(c, "specialty_write", [job[c] EXCEPT !.specialtyResults = <<>>],
               evaluations, chrome[c], calls[c], thrown[c])
       \/ \E coords \in Coordinates :
            LET tasks == TasksFor(job[c].specialtyFlags, coords)
            IN IF Len(tasks) = 0
                  THEN Step(c, "specialty_write", [job[c] EXCEPT !.specialtyResults = <<>>],
                            evaluations, chrome[c], calls[c], thrown[c])
                  ELSE Step(c, "checks", [job[c] EXCEPT !.coords = coords, !.tasks = tasks],
                            evaluations, chrome[c],
                            [calls[c] EXCEPT !.check = @ + Len(tasks)], thrown[c])

\* the data provider of check n answers or fails (the failure is caught)
CheckDataSettles(c, n) ==
    /\ pc[c] = "checks"
    /\ n \in 1..Len(job[c].tasks)
    /\ job[c].tasks[n].state = "data"
    /\ \E failed \in BOOLEAN :
        Step(c, "checks",
             [job[c] EXCEPT !.tasks[n] = [@ EXCEPT !.state = "summarize", !.dataFailed = failed]],
             evaluations, chrome[c], calls[c], thrown[c])

\* the checks awaited with Promise.all: the first rejection is thrown
CheckSummaryThrows(c, n) ==
    /\ pc[c] = "checks"
    /\ n \in 1..Len(job[c].tasks)
    /\ job[c].tasks[n].state = "summarize"
    /\ \/ Step(c, "checks", [job[c] EXCEPT !.tasks[n].state = "fulfilled"],
               evaluations, chrome[c], calls[c], thrown[c])
       \/ Throw(c, "check")

\* the model call of check n returns its findings or throws
CheckSummarySettles(c, n) ==
    /\ pc[c] = "checks"
    /\ n \in 1..Len(job[c].tasks)
    /\ job[c].tasks[n].state = "summarize"
    /\ \E st \in {"fulfilled", "rejected"} :
        Step(c, "checks", [job[c] EXCEPT !.tasks[n].state = st],
             evaluations, chrome[c], calls[c], thrown[c])

\* the update of specialty_results is sent as soon as one check has settled
ChecksRaced(c) ==
    /\ pc[c] = "checks"
    /\ \E n \in 1..Len(job[c].tasks) : Settled(job[c].tasks[n])
    /\ Step(c, "specialty_write",
            [job[c] EXCEPT !.coords = "none", !.tasks = <<>>,
                           !.specialtyResults = FulfilledResults(job[c].tasks)],
            evaluations, chrome[c], calls[c], thrown[c])

\* the update of specialty_results is sent without being awaited: scoring
\* starts at once
ChecksSettledUnawaited(c) ==
    /\ pc[c] = "checks"
    /\ \A n \in 1..Len(job[c].tasks) : Settled(job[c].tasks[n])
    /\ Step(c, "score_call",
            Scoring(c, [job[c] EXCEPT !.coords = "none", !.tasks = <<>>,
                                      !.specialtyResults = FulfilledResults(job[c].tasks)]),
            evaluations, chrome[c], Count(c, "scoring"), thrown[c])

\* Promise.allSettled resolves and runSpecialtyChecks returns the fulfilled
\* values; the update of specialty_results is sent
ChecksSettled(c) ==
    /\ pc[c] = "checks"
    /\ \A n \in 1..Len(job[c].tasks) : Settled(job[c].tasks[n])
    /\ Step(c, "specialty_write",
            [job[c] EXCEPT !.coords = "none", !.tasks = <<>>,
                           !.specialtyResults = FulfilledResults(job[c].tasks)],
            evaluations, chrome[c], calls[c], thrown[c])

\* the update of specialty_results settles; generateFinalSummary starts
SpecialtySaved(c) ==
    /\ pc[c] = "specialty_write"
    /\ \E applied \in BOOLEAN :
        Step(c, "score_call", Scoring(c, job[c]),
             IF applied
                THEN SetCol(evaluations, job[c].sessionId, "specialty_results",
                            Val(job[c].specialtyResults))
                ELSE evaluations,
             chrome[c], Count(c, "scoring"), thrown[c])

\* ------------------------------------------------------------------------
\* Step 4: generateFinalSummary
\* ------------------------------------------------------------------------
\* the scoring call settles; the text is parsed, the score and the summary
\* are logged (a TypeError when the parsed value is null) and the final
\* update is sent
ScoreReturns(c) ==
    /\ pc[c] = "score_call"
    /\ \/ Throw(c, "scoring")
       \/ \E rawSummaryText \in ScoringTexts :
            LET finalSummary == parseSummaryResponse(rawSummaryText)
            IN IF finalSummary.kind = "null"
                  THEN Throw(c, "summary")
                  ELSE Step(c, "final_write",
                            [job[c] EXCEPT !.rawSummaryText = rawSummaryText,
                                           !.finalSummary = finalSummary],
                            evaluations, chrome[c], calls[c], thrown[c])

\* the final update settles and a statement after it throws into the catch
FinalSavedThenThrows(c) ==
    /\ pc[c] = "final_write"
    /\ \E applied \in BOOLEAN :
        Step(c, "error_write", job[c],
             IF applied THEN FinalUpdate(evaluations, job[c].sessionId, job[c].finalSummary)
                        ELSE evaluations,
             chrome[c], calls[c], "after_final")

\* the final update sent as two updates: the status first, then the score
\* and the summary
FinalSavedInTwo(c) ==
    /\ pc[c] = "final_write"
    /\ LET id == job[c].sessionId
       IN IF evaluations[id].status = "processing"
             THEN Step(c, "final_write", job[c], SetCol(evaluations, id, "status", "completed"),
                       chrome[c], calls[c], thrown[c])
             ELSE Step(c, "done", job[c], FinalUpdate(evaluations, id, job[c].finalSummary),
                       chrome[c], calls[c], thrown[c])

\* the final update settles; processPropertyBackground returns
FinalSaved(c) ==
    /\ pc[c] = "final_write"
    /\ \E applied \in BOOLEAN :
        Step(c, "done", job[c],
             IF applied THEN FinalUpdate(evaluations, job[c].sessionId, job[c].finalSummary)
                        ELSE evaluations,
             chrome[c], calls[c], thrown[c])

\* ------------------------------------------------------------------------
\* catch and finally of processPropertyBackground
\* ------------------------------------------------------------------------
\* a handler that awaits the job inside its try: the failure of the job
\* reaches the catch of the handler, which answers again
ErrorSavedAnswers(c) ==
    /\ pc[c] = "error_write"
    /\ \E applied \in BOOLEAN :
        /\ pc' = [pc EXCEPT ![c] = IF job[c].browser = "ref" THEN "finally_close" ELSE "done"]
        /\ evaluations' = IF applied
                             THEN updateSessionStatus(evaluations, job[c].sessionId, "error",
                                                      GenericError)
                             ELSE evaluations
        /\ response' = [response EXCEPT ![c] = [code |-> 500, sessionId |-> 0]]
    /\ UNCHANGED <<body, job, chrome, calls, thrown, page>>

\* a catch without the finally block: the run ends after the update
ErrorSavedNoFinally(c) ==
    /\ pc[c] = "error_write"
    /\ \E applied \in BOOLEAN :
        Step(c, "done", job[c],
             IF applied
                THEN updateSessionStatus(evaluations, job[c].sessionId, "error", GenericError)
                ELSE evaluations,
             chrome[c], calls[c], thrown[c])

\* the update of updateSessionStatus settles; the finally block closes the
\* browser when the variable still refers to it
ErrorSaved(c) ==
    /\ pc[c] = "error_write"
    /\ \E applied \in BOOLEAN :
        Step(c, IF job[c].browser = "ref" THEN "finally_close" ELSE "done", job[c],
             IF applied
                THEN updateSessionStatus(evaluations, job[c].sessionId, "error", GenericError)
                ELSE evaluations,
             chrome[c], calls[c], thrown[c])

\* browser.close() of the finally block settles (its exception is caught)
FinallyClosed(c) ==
    /\ pc[c] = "finally_close"
    /\ \E ch \in {"closed", chrome[c]} :
        Step(c, "done", job[c], evaluations, ch, calls[c], thrown[c])

JobStep(c) ==
    \/ ChecklistReturns(c)
    \/ ChecklistSaved(c)
    \/ BrowserLaunched(c)
    \/ PageOpened(c)
    \/ SearchReturns(c)
    \/ PageLoaded(c)
    \/ BrowserClosed(c)
    \/ ImagesFetched(c)
    \/ AnalyzerReturns(c)
    \/ AnalyzerErrorReturned(c)
    \/ BatchErrorLogged(c)
    \/ BatchSaved(c)
    \/ DelayElapsed(c)
    \/ GeocodeReturns(c)
    \/ \E n \in 1..Len(CheckKinds) : CheckDataSettles(c, n) \/ CheckSummarySettles(c, n)
    \/ ChecksSettled(c)
    \/ SpecialtySaved(c)
    \/ ScoreReturns(c)
    \/ FinalSaved(c)
    \/ ErrorSaved(c)
    \/ FinallyClosed(c)

Next ==
    \E c \in Submitters :
        \/ PostAnalyzeProperty(c)
        \/ InsertSettles(c)
        \/ JobStep(c)

Spec == Init /\ [][Next]_vars

\* ------------------------------------------------------------------------
\* Concurrent submissions: both clients submit and their jobs interleave at
\* every await; the answers of the external services are drawn from a
\* narrow set and the updates of the progress columns are applied
\* ------------------------------------------------------------------------
ConcResults ==
    {analyzeSingleBatch(<<u>>, <<Doc(ArrayDoc(<<FoundItem(1)>>))>>).results[1] : u \in Urls}

ConcInputs ==
    \A c \in Clients :
        /\ body[c].url = ""
        /\ thrown[c] \in {"none", "scrape"}
        /\ job[c].checklist \in {<<>>, <<"stairs", "\n", "MARKER", "elevation", "pollution">>}
        /\ job[c].propertyImages \in {<<>>, <<"u1", "u2">>}
        /\ pc[c] \in {"fetch", "close"} => job[c].propertyImages # <<>>
        /\ pc[c] = "analyze" => job[c].fetched # <<>>
        /\ pc[c] \in {"analyzer_caught", "batch_caught"} => job[c].i = 0
        /\ Len(job[c].accumulatedResults) <= job[c].i + 1
        /\ \A k \in 1..Len(job[c].accumulatedResults) :
                job[c].accumulatedResults[k] \in ConcResults
        /\ \A n \in 1..Len(job[c].tasks) :
                /\ ~job[c].tasks[n].dataFailed
                /\ job[c].tasks[n].coords = "p1"
                /\ n > 1 /\ job[c].tasks[n].state # "data" => Settled(job[c].tasks[n - 1])
        /\ job[c].rawSummaryText \in {<<>>, <<Doc(ObjectDoc(JInt(85), JStr("ok")))>>}
        /\ pc[c] \in {"final_write", "done"} /\ thrown[c] = "none" => job[c].rawSummaryText # <<>>
        /\ job[c].sessionId # 0 =>
              LET row == evaluations[job[c].sessionId]
              IN /\ pc[c] \notin {"checklist_call", "checklist_write"} /\ job[c].checklist # <<>>
                       => ~row.accessibility_checklist.isNull
                 /\ pc[c] # "batch_write" /\ job[c].accumulatedResults # <<>>
                       => row.image_results = Val(job[c].accumulatedResults)
                 /\ pc[c] \in {"score_call", "final_write", "done"} /\ calls[c].geocode = 1
                       => ~row.specialty_results.isNull
                 /\ pc[c] = "done" => row.status # "processing"

\* every await of either client's request or job, under the narrow answers
NextConc ==
    \E c \in Clients :
        \/ PostAnalyzeProperty(c) /\ ConcInputs'
        \/ InsertSettles(c) /\ ConcInputs'
        \/ ChecklistReturns(c) /\ ConcInputs'
        \/ ChecklistSaved(c) /\ ConcInputs'
        \/ BrowserLaunched(c) /\ ConcInputs'
        \/ PageOpened(c) /\ ConcInputs'
        \/ SearchReturns(c) /\ ConcInputs'
        \/ PageLoaded(c) /\ ConcInputs'
        \/ BrowserClosed(c) /\ ConcInputs'
        \/ ImagesFetched(c) /\ ConcInputs'
        \/ AnalyzerReturns(c) /\ ConcInputs'
        \/ AnalyzerErrorReturned(c) /\ ConcInputs'
        \/ BatchErrorLogged(c) /\ ConcInputs'
        \/ BatchSaved(c) /\ ConcInputs'
        \/ DelayElapsed(c) /\ ConcInputs'
        \/ GeocodeReturns(c) /\ ConcInputs'
        \/ (\E n \in 1..Len(CheckKinds) : CheckDataSettles(c, n)) /\ ConcInputs'
        \/ (\E n \in 1..Len(CheckKinds) : CheckSummarySettles(c, n)) /\ ConcInputs'
        \/ ChecksSettled(c) /\ ConcInputs'
        \/ SpecialtySaved(c) /\ ConcInputs'
        \/ ScoreReturns(c) /\ ConcInputs'
        \/ FinalSaved(c) /\ ConcInputs'
        \/ ErrorSaved(c) /\ ConcInputs'
        \/ FinallyClosed(c) /\ ConcInputs'

SpecConc == Init /\ [][NextConc]_vars
\* ------------------------------------------------------------------------
\* Pages with many photos: one job scrapes a page of LongLists and runs its
\* batch loop; the other answers are drawn from a narrow set and the
\* updates are applied
\* ------------------------------------------------------------------------
ScrapeResult(u) ==
    analyzeSingleBatch(<<u>>, <<Doc(ArrayDoc(<<FoundItem(1)>>))>>).results[1]

ScrapeInputs ==
    \A c \in Clients :
        /\ body[c].address = ""
        /\ pc[c] \notin {"rejected", "failed", "analyzer_caught", "batch_caught"}
        /\ thrown[c] = "none"
        /\ job[c].checklist \in {<<>>, <<"stairs">>}
        /\ pc[c] = "analyze" => job[c].fetched # <<>>
        /\ Len(job[c].accumulatedResults) <= job[c].i + 1
        /\ pc[c] = "batch_write" => Len(job[c].accumulatedResults) = job[c].i + 1
        /\ job[c].accumulatedResults # <<>>
              => job[c].accumulatedResults[Len(job[c].accumulatedResults)]
                    = ScrapeResult(job[c].propertyImages[Len(job[c].accumulatedResults)])
        /\ job[c].sessionId # 0 =>
              LET row == evaluations[job[c].sessionId]
              IN /\ pc[c] \notin {"checklist_call", "checklist_write"} /\ job[c].checklist # <<>>
                       => ~row.accessibility_checklist.isNull
                 /\ pc[c] # "batch_write" /\ job[c].accumulatedResults # <<>>
                       => row.image_results = Val(job[c].accumulatedResults)

\* the request, the scraping of a page with many photos and the batch loop
NextScrape ==
    \E c \in Submitters :
        \/ PostAnalyzeProperty(c) /\ ScrapeInputs'
        \/ InsertSettles(c) /\ ScrapeInputs'
        \/ ChecklistReturns(c) /\ ScrapeInputs'
        \/ ChecklistSaved(c) /\ ScrapeInputs'
        \/ BrowserLaunched(c) /\ ScrapeInputs'
        \/ PageOpened(c) /\ ScrapeInputs'
        \/ PageLoadedFrom(c, LongLists) /\ ScrapeInputs'
        \/ BrowserClosed(c) /\ ScrapeInputs'
        \/ ImagesFetched(c) /\ ScrapeInputs'
        \/ AnalyzerReturns(c) /\ ScrapeInputs'
        \/ BatchSaved(c) /\ ScrapeInputs'
        \/ DelayElapsed(c) /\ ScrapeInputs'

SpecScrape == Init /\ [][NextScrape]_vars

\* ------------------------------------------------------------------------
\* Checklists with any wording: one job whose checklist is any short text
\* over FlagWords; the page has no photo, the other answers are drawn from
\* a narrow set and the updates are applied
\* ------------------------------------------------------------------------
FlagWords ==
    {"\n", "MARKER", "marker", "elevation", "ELEVATION", "stairs", "lighting", "air quality"}

FlagTexts == SeqsUpTo(FlagWords, MaxChecklistWords) \ {<<>>}

FlagInputs ==
    \A c \in Clients :
        /\ body[c].address = ""
        /\ pc[c] \notin {"rejected", "failed"}
        /\ thrown[c] = "none"
        /\ job[c].extracted = <<>>
        /\ \A n \in 1..Len(job[c].tasks) :
                /\ ~job[c].tasks[n].dataFailed
                /\ job[c].tasks[n].coords = "p1"
                /\ job[c].tasks[n].state # "rejected"
                /\ n > 1 /\ job[c].tasks[n].state # "data" => Settled(job[c].tasks[n - 1])
        /\ job[c].rawSummaryText \in {<<>>, <<Doc(ObjectDoc(JInt(85), JStr("ok")))>>}
        /\ pc[c] \in {"final_write", "done"} => job[c].rawSummaryText # <<>>
        /\ job[c].sessionId # 0 =>
              LET row == evaluations[job[c].sessionId]
              IN /\ pc[c] \notin {"checklist_call", "checklist_write"}
                       => ~row.accessibility_checklist.isNull
                 /\ pc[c] \in {"score_call", "final_write", "done"} /\ calls[c].geocode = 1
                       => ~row.specialty_results.isNull
                 /\ pc[c] = "done" => row.status # "processing"

\* the request and the job on a page without photos
NextFlags ==
    \E c \in Submitters :
        \/ PostAnalyzeProperty(c) /\ FlagInputs'
        \/ InsertSettles(c) /\ FlagInputs'
        \/ ChecklistReturnsFrom(c, FlagTexts) /\ FlagInputs'
        \/ ChecklistSaved(c) /\ FlagInputs'
        \/ BrowserLaunched(c) /\ FlagInputs'
        \/ PageOpened(c) /\ FlagInputs'
        \/ PageLoaded(c) /\ FlagInputs'
        \/ BrowserClosed(c) /\ FlagInputs'
        \/ GeocodeReturns(c) /\ FlagInputs'
        \/ (\E n \in 1..Len(CheckKinds) : CheckDataSettles(c, n)) /\ FlagInputs'
        \/ (\E n \in 1..Len(CheckKinds) : CheckSummarySettles(c, n)) /\ FlagInputs'
        \/ ChecksSettled(c) /\ FlagInputs'
        \/ SpecialtySaved(c) /\ FlagInputs'
        \/ ScoreReturns(c) /\ FlagInputs'
        \/ FinalSaved(c) /\ FlagInputs'

SpecFlags == Init /\ [][NextFlags]_vars

\* ------------------------------------------------------------------------
\* The frontend: AnalysisPage and its polling effect
\* ------------------------------------------------------------------------
\* the session ids the submissions have answered with
SessionIds == {response[c].sessionId : c \in Clients} \ {0}

\* the poll chain an effect run starts: poll() is called, pollingRef is
\* true and the request is sent
Chain(id) == [sessionId |-> id, at |-> "request", current |-> TRUE, observed |-> "none"]

\* the body of the effect: pollingRef.current = true; poll()
Effect(p, id) ==
    [p EXCEPT !.sessionId = id, !.pollingRef = TRUE, !.chains = Append(@, Chain(id))]

\* the cleanup of the effect: pollingRef.current = false and
\* clearTimeout(completeTimerRef.current)
Cleanup(p) ==
    [p EXCEPT !.pollingRef = FALSE,
              !.completeTimer = NoData,
              !.chains = [k \in DOMAIN @ |-> [@[k] EXCEPT !.current = FALSE]]]

\* the component is rendered for the first time with a session id
Mount(id) ==
    /\ page.mounted = "no"
    /\ id \in SessionIds
    /\ page' = Effect([page EXCEPT !.mounted = "yes"], id)
    /\ UNCHANGED server

\* the component is rendered with another session id: the cleanup of the
\* last effect runs, then the effect runs again
ChangeSession(id) ==
    /\ page.mounted = "yes"
    /\ id \in SessionIds
    /\ id # page.sessionId
    /\ Len(page.chains) <= MaxSessionChanges
    /\ page' = Effect(Cleanup(page), id)
    /\ UNCHANGED server

\* the component is removed: the cleanup of the last effect runs
Unmount ==
    /\ page.mounted = "yes"
    /\ page' = [Cleanup(page) EXCEPT !.mounted = "unmounted"]
    /\ UNCHANGED server

\* poll() after its await returned data: setSessionData (ignored by React
\* once the component is removed), then the test of data.status
Received(p, k, data) ==
    LET shown == IF p.mounted = "yes" THEN [p EXCEPT !.sessionData = data] ELSE p
    IN IF data.status \in {"completed", "error"}
          THEN LET ended == [shown EXCEPT !.pollingRef = FALSE,
                                          !.chains[k].at = "stopped",
                                          !.chains[k].observed = data.status]
               IN IF data.status = "completed" /\ ~p.completeFiredRef
                     THEN [ended EXCEPT !.completeFiredRef = TRUE, !.completeTimer = data]
                     ELSE ended
          ELSE [shown EXCEPT !.chains[k].at = "timer"]

\* the request of chain k settles: getEvaluationUpdateById throws (the
\* catch reschedules poll) or returns the row as it is now
RequestSettles(k) ==
    /\ k \in DOMAIN page.chains
    /\ page.chains[k].at = "request"
    /\ \/ page' = [page EXCEPT !.chains[k].at = "timer"]
       \/ LET id == page.chains[k].sessionId
          IN page' = Received(page, k, [id |-> id, status |-> evaluations[id].status])
    /\ UNCHANGED server

\* the timer of chain k fires and poll() runs: it returns when pollingRef
\* is false, otherwise it sends the next request
TimerFires(k) ==
    /\ k \in DOMAIN page.chains
    /\ page.chains[k].at = "timer"
    /\ page' = [page EXCEPT !.chains[k].at = IF page.pollingRef THEN "request" ELSE "stopped"]
    /\ UNCHANGED server

\* the timer set on completion fires: onCompleteRef.current(data)
CompleteTimerFires ==
    /\ page.completeTimer # NoData
    /\ page' = [page EXCEPT !.completeTimer = NoData,
                            !.onCompleteCalls = Append(@, page.completeTimer)]
    /\ UNCHANGED server

\* ------------------------------------------------------------------------
\* Polling: both submissions are answered and their jobs run on a page
\* without photos, with narrow answers; the component polls the rows
\* ------------------------------------------------------------------------
PollInputs ==
    \A c \in Clients :
        /\ body[c].address = ""
        /\ pc[c] \notin {"rejected", "failed"}
        /\ thrown[c] \in {"none", "scoring"}
        /\ job[c].checklist \in {<<>>, <<"stairs">>}
        /\ job[c].extracted = <<>>
        /\ job[c].rawSummaryText \in {<<>>, <<Doc(ObjectDoc(JInt(85), JStr("ok")))>>}
        /\ pc[c] \in {"final_write", "done"} /\ thrown[c] = "none" => job[c].rawSummaryText # <<>>
        /\ job[c].sessionId # 0 =>
              LET row == evaluations[job[c].sessionId]
              IN /\ pc[c] \notin {"checklist_call", "checklist_write"}
                       => ~row.accessibility_checklist.isNull
                 /\ pc[c] = "done" => row.status # "processing"

NextPoll ==
    \/ \E c \in Clients :
        \/ PostAnalyzeProperty(c) /\ PollInputs'
        \/ InsertSettles(c) /\ PollInputs'
        \/ ChecklistReturns(c) /\ PollInputs'
        \/ ChecklistSaved(c) /\ PollInputs'
        \/ BrowserLaunched(c) /\ PollInputs'
        \/ PageOpened(c) /\ PollInputs'
        \/ PageLoaded(c) /\ PollInputs'
        \/ BrowserClosed(c) /\ PollInputs'
        \/ ScoreReturns(c) /\ PollInputs'
        \/ FinalSaved(c) /\ PollInputs'
        \/ ErrorSaved(c) /\ PollInputs'
    \/ \E id \in 1..Cardinality(Clients) : Mount(id)
    \/ \E id \in 1..Cardinality(Clients) : ChangeSession(id)
    \/ Unmount
    \/ \E k \in 1..(MaxSessionChanges + 1) : RequestSettles(k)
    \/ \E k \in 1..(MaxSessionChanges + 1) : TimerFires(k)
    \/ CompleteTimerFires

SpecPoll == Init /\ [][NextPoll]_vars

\* ------------------------------------------------------------------------
\* Properties
\* ------------------------------------------------------------------------
Started(c) == job[c].sessionId # 0
Row(c) == evaluations[job[c].sessionId]
Terminal(status) == status \in {"completed", "error"}
Finished(c) == Started(c) /\ pc[c] = "done"

\* what a client reads as image_results (NULL reads as the empty list)
ReadImageResults(row) == IF row.image_results.isNull THEN <<>> ELSE row.image_results.v

\* positions at which an update of the job's row is awaited
WritePending(c) ==
    pc[c] \in {"checklist_write", "batch_write", "specialty_write", "final_write",
               "error_write"}

\* C1: a row is created with status 'processing' and its status changes at
\* most once, from 'processing' to 'completed' or 'error'; no step takes a
\* terminal status to another status.
C1_StatusChangesOnce ==
    [][ /\ \A id \in DOMAIN evaluations :
            evaluations'[id].status # evaluations[id].status
                => /\ evaluations[id].status = "processing"
                   /\ Terminal(evaluations'[id].status)
        /\ \A id \in (DOMAIN evaluations') \ (DOMAIN evaluations) :
            evaluations'[id].status = "processing" ]_vars

\* C1 witness: a job whose scoring threw after earlier updates of its row,
\* ended with status 'error'
C1_Witness ==
    \E c \in Clients :
        /\ Finished(c)
        /\ thrown[c] \in {"scoring", "summary"}
        /\ Row(c).status = "error"
        /\ ~Row(c).image_results.isNull

\* C2: once the status of a row is 'completed' or 'error', no update of the
\* row is awaited and no step changes any column of the row.
C2_TerminalRowImmutable ==
    /\ [](\A c \in Clients : Started(c) /\ Terminal(Row(c).status) => ~WritePending(c))
    /\ [][\A id \in DOMAIN evaluations :
            Terminal(evaluations[id].status) => evaluations'[id] = evaluations[id]]_vars

\* C2 witness: the job takes a step (closing the browser in the finally
\* block) after its row became terminal
C2_Witness ==
    \E c \in Clients :
        /\ Finished(c)
        /\ Row(c).status = "error"
        /\ thrown[c] = "scrape"
        /\ chrome[c] = "closed"

\* C3 (as claimed): no run of processPropertyBackground finishes while its
\* row is still 'processing'.
C3_FinishedImpliesTerminal ==
    \A c \in Clients : Finished(c) => Terminal(Row(c).status)

\* C4: across every step, the image_results a client read before the step
\* is a prefix of the image_results it reads after the step.
C4_ImageResultsGrowByAppend ==
    [][\A id \in DOMAIN evaluations :
        IsPrefix(ReadImageResults(evaluations[id]), ReadImageResults(evaluations'[id]))]_vars

\* C4 witness: the second batch was saved on top of a first batch that had
\* results, after which the row holds at least two entries
C4_Witness ==
    \E c \in Clients :
        /\ Started(c)
        /\ job[c].i >= 1
        /\ Len(ReadImageResults(Row(c))) >= 2
        /\ ReadImageResults(Row(c)) = job[c].accumulatedResults

\* C5 (as claimed): whenever the status of a row is 'completed' or 'error',
\* its final_summary holds a non-empty text.
C5_TerminalHasSummary ==
    \A id \in DOMAIN evaluations :
        Terminal(evaluations[id].status)
            => /\ ~evaluations[id].final_summary.isNull
               /\ NonEmptyText(evaluations[id].final_summary.v)

\* C6 (as claimed): in every row with status 'completed', final_score is
\* NULL or an integer between 0 and 100.
C6_ScoreInRange ==
    \A id \in DOMAIN evaluations :
        evaluations[id].status = "completed"
            => \/ evaluations[id].final_score.isNull
               \/ /\ evaluations[id].final_score.v.t = "int"
                  /\ evaluations[id].final_score.v.n \in 0..100

\* C7: when the handler answers with a session id the row of that id exists,
\* the job runs only for an existing row, and at the moment of the answer the
\* row is 'processing' with no column written and the job is at its first
\* await, no stage having finished.
C7_RowBeforeAnswerBeforeJob ==
    /\ [](\A c \in Clients :
            /\ response[c].code = 200 =>
                  /\ response[c].sessionId \in DOMAIN evaluations
                  /\ job[c].sessionId = response[c].sessionId
            /\ Started(c) => job[c].sessionId \in DOMAIN evaluations /\ response[c].code = 200)
    /\ [][\A c \in Clients :
            response'[c] # response[c] /\ response'[c].code = 200
                => /\ response'[c].sessionId \in DOMAIN evaluations'
                   /\ evaluations'[response'[c].sessionId] = NewRow(body[c])
                   /\ pc'[c] = "checklist_call"
                   /\ calls'[c] = [NoCalls EXCEPT !.checklist = 1]]_vars

\* C7 witness: the id was returned and the job is awaiting its first call
C7_Witness ==
    \E c \in Clients :
        /\ response[c].code = 200
        /\ pc[c] = "checklist_call"
        /\ Row(c).status = "processing"

\* the fields a submission must carry: userNeeds and one of address, url
MissingFieldsInBody(b) == b.userNeeds = "" \/ (b.address = "" /\ b.url = "")

\* C8: a submission without userNeeds, or without both address and url, is
\* answered 400, inserts no row and starts no job.
C8_MissingFieldsRejected ==
    /\ \A c \in Clients :
        pc[c] # "idle" /\ MissingFieldsInBody(body[c])
            => /\ pc[c] = "rejected"
               /\ response[c] = [code |-> 400, sessionId |-> 0]
               /\ job[c] = NoJob
               /\ calls[c] = NoCalls
    /\ Len(evaluations) = Cardinality({c \in Clients : Started(c)})

\* C8 witness: a submission with an address but no userNeeds was rejected
C8_Witness ==
    \E c \in Clients :
        /\ pc[c] = "rejected"
        /\ body[c].address # ""
        /\ body[c].userNeeds = ""
        /\ response[c].code = 400

\* C9 (as claimed): when checklist generation, URL resolution or image
\* extraction threw, the finished job has status 'error' with the generic
\* summary, no analyzer, geocoding, check or scoring call was made and
\* image_results was never written.
C9_FatalStageEndsInError ==
    \A c \in Clients :
        Finished(c) /\ thrown[c] \in {"checklist", "launch", "scrape"}
            => /\ Row(c).status = "error"
               /\ Row(c).final_summary = Val(GenericError)
               /\ calls[c].analyzer = 0
               /\ calls[c].geocode = 0
               /\ calls[c].check = 0
               /\ calls[c].scoring = 0
               /\ Row(c).image_results.isNull

\* C10 (as claimed): a job whose photo source yielded zero photos never
\* reaches 'completed'.
C10_NoPhotosNeverCompleted ==
    \A c \in Clients :
        Started(c) /\ Row(c).status = "completed" => Len(job[c].propertyImages) > 0

\* the failures of checklist generation, of the browser and of scraping
SetupFailures == {"checklist", "launch", "scrape", "close"}

\* C11 (as claimed): no failure of batch analysis, of the geo-context
\* fan-out or of scoring reaches the catch of the top-level runner; only a
\* failure of stages 1-3 reaches it and produces status 'error'.
C11_OnlySetupFailuresGiveError ==
    \A c \in Clients :
        /\ thrown[c] \in {"none"} \cup SetupFailures
        /\ Started(c) /\ Row(c).status = "error" => thrown[c] \in SetupFailures

\* C11 (amended): no failure of batch analysis or of the geo-context fan-out
\* reaches the catch of the top-level runner, and scoring text that does not
\* parse is replaced by the fallback; the catch is reached only by a failure
\* of stages 1-3, by a throwing scoring call or by a scoring answer that
\* parses to null, and status 'error' is produced only when it was reached.
C11_BatchAndGeoFailuresContained ==
    \A c \in Clients :
        /\ thrown[c] \in {"none"} \cup SetupFailures \cup {"scoring", "summary"}
        /\ Started(c) /\ Row(c).status = "error" => thrown[c] # "none"
        /\ pc[c] \in {"analyzer_caught", "batch_caught", "checks", "specialty_write"}
              => thrown[c] = "none"
        /\ pc[c] = "final_write" => thrown[c] = "none"

\* C11 witness: a job whose geo-context fan-out lost a check, and whose
\* scoring text did not parse, finished 'completed'
C11_Witness ==
    \E c \in Clients :
        /\ Finished(c)
        /\ thrown[c] = "none"
        /\ calls[c].check > Len(job[c].specialtyResults)
        /\ ~Parses(CleanSummaryText(job[c].rawSummaryText))
        /\ Row(c).status = "completed"

\* C12 (as claimed): when the scoring text does not parse after fence
\* stripping, the finished job has status 'completed', final_score null and
\* final_summary equal to the raw text.
C12_UnparseableScoreStillCompletes ==
    \A c \in Clients :
        Finished(c) /\ thrown[c] = "none"
                    /\ ~Parses(CleanSummaryText(job[c].rawSummaryText))
            => /\ Row(c).status = "completed"
               /\ Row(c).final_score = Null
               /\ Row(c).final_summary = Val(JText(job[c].rawSummaryText))

\* positions of a job after its batch loop has returned
PastBatches(c) ==
    pc[c] \in {"geocode", "checks", "specialty_write", "score_call", "final_write"}

\* C13: a batch whose analyzer call throws, or whose answer does not parse,
\* adds no entry to the accumulated results and sends no entry of its own to
\* image_results, leaves the entries of earlier batches intact, and does not
\* abort the job: the loop goes on to the next batch, every batch of the job
\* gets its analyzer call, and a later batch appends its results.
C13_FailedBatchSkipped ==
    /\ [](\A c \in Clients :
            PastBatches(c) => calls[c].analyzer = TotalBatches(job[c].propertyImages))
    /\ [][\A c \in Clients :
            /\ pc[c] \in {"analyzer_caught", "batch_caught"} /\ pc'[c] # pc[c]
                  => /\ job'[c].accumulatedResults = job[c].accumulatedResults
                     /\ evaluations' = evaluations
                     /\ thrown'[c] = "none"
                     /\ pc'[c] \in {"batch_write", "delay", "geocode", "score_call"}
                     /\ BatchNum(job[c].i) < TotalBatches(job[c].propertyImages)
                           => pc'[c] \in {"batch_write", "delay"}
            /\ pc[c] = "batch_write" /\ pc'[c] # pc[c]
                  => /\ job'[c].accumulatedResults = job[c].accumulatedResults
                     /\ ReadImageResults(evaluations'[job[c].sessionId])
                            \in {ReadImageResults(Row(c)), job[c].accumulatedResults}
                     /\ BatchNum(job[c].i) < TotalBatches(job[c].propertyImages)
                           => pc'[c] = "delay"
            /\ pc[c] = "delay" /\ pc'[c] # pc[c]
                  => /\ pc'[c] = "fetch"
                     /\ job'[c].i = job[c].i + BATCH_SIZE
                     /\ job'[c].accumulatedResults = job[c].accumulatedResults
            /\ pc[c] = "analyze" /\ pc'[c] # pc[c]
                  => IsPrefix(job[c].accumulatedResults, job'[c].accumulatedResults)]_vars

\* C13 witness: the second batch of a job failed while the entries of the
\* first are stored
C13_Witness ==
    \E c \in Clients :
        /\ pc[c] \in {"analyzer_caught", "batch_caught"}
        /\ job[c].i > 0
        /\ job[c].accumulatedResults # <<>>
        /\ ReadImageResults(Row(c)) = job[c].accumulatedResults

\* the entry a fulfilled check of a kind contributes
Finding(kind) == [category |-> Category(kind), findings |-> "findings"]

\* C14 (as claimed): when checks were launched and some of them failed, the
\* finished job has status 'completed' and its specialty_results holds the
\* findings of the checks that succeeded, one entry each, and nothing else.
C14_SucceededChecksStoredAndCompleted ==
    \A c \in Clients :
        Finished(c) /\ thrown[c] = "none" /\ calls[c].check > 0
            => /\ Row(c).status = "completed"
               /\ Row(c).specialty_results = Val(job[c].specialtyResults)
               /\ Len(job[c].specialtyResults) <= calls[c].check

\* C15 (as claimed): with elevation and pollution requested, a failure of
\* the elevation data provider next to a succeeding pollution check leaves
\* exactly one entry, the pollution finding.
C15_ElevationProviderFailureDropsEntry ==
    [][\A c \in Clients :
        /\ pc[c] = "checks" /\ pc'[c] = "specialty_write"
        /\ Len(job[c].tasks) = 2
        /\ job[c].tasks[1].kind = "elevation" /\ job[c].tasks[1].dataFailed
        /\ job[c].tasks[2].kind = "pollution" /\ job[c].tasks[2].state = "fulfilled"
        => job'[c].specialtyResults = <<Finding("pollution")>>]_vars

\* C15 (amended): with elevation and pollution requested, when the elevation
\* check fails (its summarising call throws) and the pollution check
\* succeeds, runSpecialtyChecks returns exactly the pollution finding and the
\* run goes on to the update of specialty_results without reaching the
\* catch; when only the elevation data provider fails, the check catches the
\* failure and the elevation finding is returned too.
C15_ElevationCheckFailureDropsEntry ==
    [][\A c \in Clients :
        /\ pc[c] = "checks" /\ pc'[c] # pc[c]
        /\ Len(job[c].tasks) = 2
        /\ job[c].tasks[1].kind = "elevation"
        /\ job[c].tasks[2].kind = "pollution" /\ job[c].tasks[2].state = "fulfilled"
        => /\ pc'[c] = "specialty_write"
           /\ thrown'[c] = "none"
           /\ job[c].tasks[1].state = "rejected"
                 => job'[c].specialtyResults = <<Finding("pollution")>>
           /\ job[c].tasks[1].state = "fulfilled"
                 => job'[c].specialtyResults = <<Finding("elevation"), Finding("pollution")>>]_vars

\* C15 witness: only the pollution finding was returned and is being written
C15_Witness ==
    \E c \in Clients :
        /\ pc[c] = "specialty_write"
        /\ calls[c].check = 2
        /\ job[c].specialtyResults = <<Finding("pollution")>>

\* no check kind is requested by the checklist
NoKindRequested(checklist) ==
    \A n \in 1..Len(CheckKinds) : ~parseSpecialtyFlags(checklist)[CheckKinds[n]]

\* C16: when the checklist requests no check kind, the job never geocodes,
\* launches no check, never sends an update of specialty_results, which stays
\* NULL in its row, and goes from the batch loop to the scoring call.
C16_NoKindSkipsFanOut ==
    \A c \in Clients :
        Started(c) /\ NoKindRequested(job[c].checklist)
            => /\ calls[c].geocode = 0
               /\ calls[c].check = 0
               /\ pc[c] \notin {"geocode", "checks", "specialty_write"}
               /\ Row(c).specialty_results.isNull
               /\ pc[c] \in {"score_call", "final_write"} => calls[c].scoring = 1
               /\ Finished(c) /\ thrown[c] \in {"none", "scoring", "summary"}
                     => calls[c].scoring = 1

\* C16 witness: a job with photos and a checklist without the marker line
\* has finished after its scoring call
C16_Witness ==
    \E c \in Clients :
        /\ Finished(c)
        /\ job[c].checklist # <<>>
        /\ NoKindRequested(job[c].checklist)
        /\ Len(job[c].propertyImages) > 0
        /\ calls[c].scoring = 1
        /\ Row(c).status = "completed"

\* C17: the update of specialty_results is sent at most once per job, as one
\* update carrying the whole list, and only when every launched check has
\* settled; the scoring call is never made while a check is still running.
C17_SpecialtyWrittenOnceAfterAllSettled ==
    /\ [](\A c \in Clients :
            calls[c].scoring > 0
                => /\ pc[c] \notin {"geocode", "checks", "specialty_write"}
                   /\ job[c].tasks = <<>>)
    /\ [][\A c \in Clients :
            /\ pc'[c] = "specialty_write" /\ pc[c] # "specialty_write"
                  => /\ pc[c] \in {"geocode", "checks"}
                     /\ \A n \in 1..Len(job[c].tasks) : Settled(job[c].tasks[n])
                     /\ calls[c].scoring = 0
                     /\ Row(c).specialty_results.isNull
            /\ Started(c) /\ evaluations'[job[c].sessionId].specialty_results
                                # Row(c).specialty_results
                  => /\ pc[c] = "specialty_write"
                     /\ pc'[c] = "score_call"
                     /\ evaluations'[job[c].sessionId].specialty_results
                            = Val(job[c].specialtyResults)]_vars

\* C17 witness: two checks were launched, one was rejected, and the single
\* update has stored the finding of the other before the scoring call
C17_Witness ==
    \E c \in Clients :
        /\ pc[c] = "score_call"
        /\ calls[c].check = 2
        /\ ~Row(c).specialty_results.isNull
        /\ Len(Row(c).specialty_results.v) = 1

\* C20: within one job geocodeAddress is called at most once, and every
\* launched check holds the coordinates that call returned.
C20_OneGeocodeSharedCoords ==
    \A c \in Clients :
        /\ calls[c].geocode <= 1
        /\ pc[c] = "checks"
              => /\ calls[c].geocode = 1
                 /\ job[c].coords \in Coordinates
                 /\ \A n \in 1..Len(job[c].tasks) : job[c].tasks[n].coords = job[c].coords
        /\ job[c].tasks # <<>> => pc[c] = "checks"

\* C20 witness: the elevation and the pollution check are running on the
\* coordinates of the one geocoding call
C20_Witness ==
    \E c \in Clients :
        /\ pc[c] = "checks"
        /\ Len(job[c].tasks) = 2
        /\ job[c].tasks[1].kind = "elevation"
        /\ job[c].tasks[1].state = "summarize"
        /\ job[c].tasks[1].coords = job[c].tasks[2].coords

\* C18: every row has exactly one orchestrator run, started once by the
\* request that inserted it: no two runs hold the same id, a run never
\* changes its id, and a finished run is never started again, whatever the
\* interleaving of two concurrent submissions.
C18_OneRunPerJob ==
    /\ [](\A id \in 1..Len(evaluations) :
            Cardinality({c \in Clients : job[c].sessionId = id}) = 1)
    /\ [](\A c \in Clients :
            /\ Started(c) => calls[c].checklist = 1 /\ job[c].sessionId = response[c].sessionId
            /\ ~Started(c) => calls[c] = NoCalls)
    /\ [][\A c \in Clients :
            /\ Started(c) => job'[c].sessionId = job[c].sessionId
            /\ Started(c) => calls'[c].checklist = calls[c].checklist
            /\ pc[c] = "done" => pc'[c] = "done"]_vars

\* C18 witness: the runs of two concurrent submissions are both under way,
\* each on its own row
C18_Witness ==
    /\ Len(evaluations) = 2
    /\ pc["c1"] = "batch_write"
    /\ pc["c2"] = "batch_write"
    /\ job["c1"].sessionId # job["c2"].sessionId

\* C19: with two jobs interleaved at their awaits, a step of one job leaves
\* the other job's locals, position and call history as they are and
\* changes no row but its own: a row changes only in a step of the run
\* that holds its id, at one of that run's awaited updates.
C19_JobsDoNotInterfere ==
    [][\A c \in Clients :
        /\ pc'[c] # pc[c]
              => /\ \A d \in Clients \ {c} :
                        /\ job'[d] = job[d]
                        /\ pc'[d] = pc[d]
                        /\ calls'[d] = calls[d]
                        /\ thrown'[d] = thrown[d]
                 /\ \A id \in 1..Len(evaluations) :
                        id # job[c].sessionId => evaluations'[id] = evaluations[id]
        /\ Started(c) /\ evaluations'[job[c].sessionId] # Row(c)
              => pc'[c] # pc[c] /\ WritePending(c)]_vars

\* C19 witness: both jobs are in their batch loops and their rows hold
\* different results
C19_Witness ==
    /\ Len(evaluations) = 2
    /\ pc["c1"] = "delay"
    /\ pc["c2"] = "analyze"
    /\ evaluations[1].image_results # evaluations[2].image_results
    /\ ~evaluations[job["c1"].sessionId].image_results.isNull

\* C21: within one job the updates are awaited in a fixed order, each
\* settling before the next stage begins: the browser is launched only by
\* the step that settles the checklist update, the fan-out and the scoring
\* call begin only once the last update of image_results has settled, the
\* scoring call begins only by the step that settles the update of
\* specialty_results when one is sent, and no column of an earlier stage is
\* written once a later stage has written.
C21_WritesInStageOrder ==
    /\ [](\A c \in Clients :
            /\ pc[c] \in {"checklist_call", "checklist_write"}
                  => calls[c].launch = 0 /\ calls[c].analyzer = 0
            /\ pc[c] \in {"fetch", "analyze", "analyzer_caught", "batch_caught",
                          "batch_write", "delay"}
                  => /\ calls[c].geocode = 0 /\ calls[c].scoring = 0
                     /\ Row(c).specialty_results.isNull
                     /\ Row(c).status = "processing"
            /\ pc[c] \in {"geocode", "checks", "specialty_write"}
                  => /\ calls[c].scoring = 0
                     /\ Row(c).status = "processing"
                     /\ Row(c).final_score.isNull)
    /\ [][\A c \in Clients :
            /\ pc'[c] = "launch" => pc[c] \in {"launch", "checklist_write"}
            /\ pc'[c] = "geocode"
                  => pc[c] \in {"geocode", "close", "batch_write", "batch_caught"}
            /\ pc'[c] = "score_call"
                  => \/ pc[c] \in {"score_call", "specialty_write"}
                     \/ /\ pc[c] \in {"close", "batch_write", "batch_caught"}
                        /\ calls[c].geocode = 0
            /\ pc'[c] = "final_write" => pc[c] \in {"final_write", "score_call"}
            /\ Started(c) /\ evaluations'[job[c].sessionId].accessibility_checklist
                                # Row(c).accessibility_checklist
                  => pc[c] = "checklist_write" /\ Row(c).image_results.isNull
            /\ Started(c) /\ evaluations'[job[c].sessionId].image_results
                                # Row(c).image_results
                  => pc[c] = "batch_write" /\ Row(c).specialty_results.isNull
            /\ Started(c) /\ evaluations'[job[c].sessionId].specialty_results
                                # Row(c).specialty_results
                  => pc[c] = "specialty_write" /\ Row(c).status = "processing"
            /\ Started(c) /\ evaluations'[job[c].sessionId].status # Row(c).status
                  => pc[c] \in {"final_write", "error_write"}]_vars

\* C21 witness: the final update is awaited after the checklist, the image
\* results and the specialty results have all been stored
C21_Witness ==
    \E c \in Clients :
        /\ pc[c] = "final_write"
        /\ ~Row(c).accessibility_checklist.isNull
        /\ ~Row(c).image_results.isNull
        /\ ~Row(c).specialty_results.isNull
        /\ Row(c).status = "processing"

\* the number of check kinds the checklist of a job requests
Requested(checklist) ==
    Cardinality({n \in 1..Len(CheckKinds) : parseSpecialtyFlags(checklist)[CheckKinds[n]]})

\* C22: within one job nothing is attempted twice: the checklist generator,
\* the geocoder and the scoring model are called at most once, the analyzer
\* is called at most once per batch, at most one check is launched per
\* requested kind, and a check that has moved on or settled is never run
\* again, whether the attempt succeeded or failed.
C22_NothingRetried ==
    /\ [](\A c \in Clients :
            /\ calls[c].checklist <= 1
            /\ calls[c].launch <= 1
            /\ calls[c].geocode <= 1
            /\ calls[c].scoring <= 1
            /\ calls[c].analyzer <= TotalBatches(job[c].propertyImages)
            /\ pc[c] = "fetch" => calls[c].analyzer = BatchNum(job[c].i) - 1
            /\ pc[c] \in {"analyze", "analyzer_caught", "batch_caught", "batch_write", "delay"}
                  => calls[c].analyzer = BatchNum(job[c].i)
            /\ pc[c] = "checks"
                  => /\ calls[c].check = Len(job[c].tasks)
                     /\ Len(job[c].tasks) = Requested(job[c].checklist))
    /\ [][\A c \in Clients :
            /\ calls'[c].check # calls[c].check => calls[c].check = 0 /\ pc[c] = "geocode"
            /\ pc[c] = "checks" /\ pc'[c] = "checks"
                  => \A n \in 1..Len(job[c].tasks) :
                        /\ job'[c].tasks[n].kind = job[c].tasks[n].kind
                        /\ job[c].tasks[n].state = "summarize"
                              => job'[c].tasks[n].state # "data"
                        /\ Settled(job[c].tasks[n]) => job'[c].tasks[n] = job[c].tasks[n]
            /\ pc[c] \in {"error_write", "finally_close", "done"}
                  => calls'[c] = calls[c]]_vars

\* C22 witness: a job finished after its scoring call threw and one of its
\* checks was rejected, with every unit attempted once
C22_Witness ==
    \E c \in Clients :
        /\ Finished(c)
        /\ thrown[c] = "scoring"
        /\ calls[c].scoring = 1
        /\ calls[c].geocode = 1
        /\ calls[c].check = 2
        /\ Len(job[c].specialtyResults) < 2
        /\ calls[c].analyzer = Len(job[c].propertyImages)
        /\ Len(job[c].propertyImages) = 2

\* the kinds of the checks a job has launched, in launch order
LaunchedKinds(tasks) == [n \in 1..Len(tasks) |-> tasks[n].kind]

\* C23 (as claimed): when the checklist requests at least one of the seven
\* check kinds, the job geocodes and runs the fan-out before scoring, and
\* the checks launched are those of the requested kinds and no other.
C23_AnyRequestedKindRunsFanOut ==
    \A c \in Clients :
        /\ pc[c] \in {"score_call", "final_write"} /\ ~NoKindRequested(job[c].checklist)
              => calls[c].geocode = 1
        /\ pc[c] = "checks"
              => LaunchedKinds(job[c].tasks)
                    = SelectSeq(CheckKinds,
                                LAMBDA k : parseSpecialtyFlags(job[c].checklist)[k])

\* C24 (as claimed): a batch whose analyzer call succeeds appends as many
\* entries as images of the batch were submitted to the analyzer.
C24_OneEntryPerSubmittedImage ==
    [][\A c \in Clients :
        pc[c] = "analyze" /\ pc'[c] = "batch_write"
            => Len(job'[c].accumulatedResults)
                  = Len(job[c].accumulatedResults) + Len(job[c].fetched)]_vars

\* C25 (as claimed): trigger_found of every entry is null or a non-empty
\* list of non-empty names without surrounding blanks.
C25_TriggerFoundNeverEmpty ==
    \A c \in Clients :
        \A k \in 1..Len(job[c].accumulatedResults) :
            LET found == job[c].accumulatedResults[k].trigger_found
            IN ~found.isNull
                  => /\ Len(found.v) > 0
                     /\ \A n \in 1..Len(found.v) :
                            found.v[n] # <<>> /\ TrimChars(found.v[n]) = found.v[n]

\* C26 (as claimed): a batch none of whose images could be fetched appends
\* no entry.
C26_NothingFetchedNothingAppended ==
    [][\A c \in Clients :
        pc[c] = "analyze" /\ job[c].fetched = <<>> /\ pc'[c] # pc[c]
            => job'[c].accumulatedResults = job[c].accumulatedResults]_vars

\* the (1-based) position of a URL in a list, 0 when it is not in it
Position(images, u) ==
    IF \E k \in 1..Len(images) : images[k] = u
       THEN CHOOSE k \in 1..Len(images) : images[k] = u
       ELSE 0

\* C27 (as claimed): every entry carries the URL of a sourced image, and of
\* any two entries the earlier one carries the URL that comes first in the
\* sourced list.
C27_EntriesInSubmissionOrder ==
    \A c \in Clients :
        LET acc == job[c].accumulatedResults
            images == job[c].propertyImages
        IN /\ \A k \in 1..Len(acc) : Position(images, acc[k].image_url) > 0
           /\ \A k, l \in 1..Len(acc) :
                k < l => Position(images, acc[k].image_url) < Position(images, acc[l].image_url)

\* C28: when a batch that is not the last one ends, by its update settling
\* or by its error being caught, the job waits for the inter-batch delay and
\* only then starts the next batch; when the last batch ends the job goes to
\* the next stage without a delay.
C28_DelayBetweenBatchesOnly ==
    /\ [](\A c \in Clients :
            pc[c] = "delay" => BatchNum(job[c].i) < TotalBatches(job[c].propertyImages))
    /\ [][\A c \in Clients :
            /\ pc[c] \in {"batch_write", "batch_caught"} /\ pc'[c] # pc[c]
                  => IF BatchNum(job[c].i) < TotalBatches(job[c].propertyImages)
                        THEN pc'[c] = "delay" /\ job'[c].i = job[c].i
                        ELSE pc'[c] \in {"geocode", "score_call"}
            /\ pc'[c] = "fetch" /\ pc[c] # "fetch"
                  => \/ pc[c] = "close" /\ job'[c].i = 0
                     \/ pc[c] = "delay" /\ job'[c].i = job[c].i + BATCH_SIZE]_vars

\* C28 witness: the job waits between its first batch, which appended
\* nothing, and its second
C28_Witness ==
    \E c \in Clients :
        /\ pc[c] = "delay"
        /\ job[c].i = 0
        /\ job[c].accumulatedResults = <<>>
        /\ Len(job[c].propertyImages) = 2

\* C29 (as claimed): once the update of a batch has settled, the stored
\* image_results equals the accumulated list of the job, so the list passed
\* to scoring is the list a polling client reads.
C29_StoredEqualsAccumulated ==
    \A c \in Clients :
        Started(c) /\ pc[c] \in {"delay", "geocode", "checks", "specialty_write",
                                 "score_call", "final_write"}
            => ReadImageResults(Row(c)) = job[c].accumulatedResults

\* position of the first occurrence of a URL among the URLs added, 0 when
\* it was never added
FirstAdd(extracted, u) ==
    IF \E k \in 1..Len(extracted) : extracted[k] = u
       THEN CHOOSE k \in 1..Len(extracted) :
                extracted[k] = u /\ \A l \in 1..(k - 1) : extracted[l] # u
       ELSE 0

\* C30: the image list handed to the batch loop holds no URL twice, holds
\* the URLs in the order of their first occurrence on the page, holds the
\* first 30 distinct URLs when the page has more and all of them otherwise,
\* and so the job has at most 30 batches and makes at most 30 analyzer calls.
C30_ImagesDistinctOrderedCapped ==
    \A c \in Clients :
        LET images == job[c].propertyImages
            extracted == job[c].extracted
        IN /\ Len(images) <= IMAGE_LIMIT
           /\ \A k, l \in 1..Len(images) : k # l => images[k] # images[l]
           /\ TotalBatches(images) <= IMAGE_LIMIT
           /\ calls[c].analyzer <= IMAGE_LIMIT
           /\ pc[c] = "fetch" => job[c].i < Len(images)
           /\ pc[c] = "close"
                 => /\ \A k \in 1..Len(images) : FirstAdd(extracted, images[k]) > 0
                    /\ \A k, l \in 1..Len(images) :
                          k < l => FirstAdd(extracted, images[k]) < FirstAdd(extracted, images[l])
                    /\ \A n \in 1..Len(extracted) :
                          \/ \E k \in 1..Len(images) : images[k] = extracted[n]
                          \/ /\ Len(images) = IMAGE_LIMIT
                             /\ \A k \in 1..Len(images) :
                                   FirstAdd(extracted, images[k]) < n

\* C30 witness: a page with more than 30 distinct URLs, some added twice,
\* has been cut to 30 images and the job has made its 30 analyzer calls
C30_Witness ==
    \E c \in Clients :
        /\ Len(job[c].propertyImages) = IMAGE_LIMIT
        /\ calls[c].analyzer = IMAGE_LIMIT
        /\ Len(job[c].accumulatedResults) = IMAGE_LIMIT
        /\ pc[c] = "score_call"

\* the trigger lists of the entries, one after the other, entry by entry
RECURSIVE TriggersInOrder(_)
TriggersInOrder(entries) ==
    IF entries = <<>> THEN <<>>
    ELSE (IF Head(entries).trigger_found.isNull THEN <<>> ELSE Head(entries).trigger_found.v)
            \o TriggersInOrder(Tail(entries))

\* C31: the scoring request lists, in the order of the image results, the
\* triggers of every entry whose trigger_found is not null, repeated
\* triggers included, and every finding of the specialty results; entries
\* with null triggers contribute nothing
C31_ScoringRequestFromTriggersAndFindings ==
    \A c \in Clients :
        job[c].summaryPrompt # NoPrompt =>
            LET prompt == job[c].summaryPrompt
                want == TriggersInOrder(job[c].accumulatedResults)
                found == job[c].specialtyResults
            IN /\ want # <<>> => TriggerList(prompt.issuesSummary) = want
               /\ want = <<>> => prompt.issuesSummary = NoIssuesText
               /\ Len(prompt.specialtySection) = Len(found)
               /\ \A n \in 1..Len(found) :
                    prompt.specialtySection[n] = <<found[n].category, found[n].findings>>

C31_Witness ==
    \E c \in Clients :
        LET want == TriggersInOrder(job[c].accumulatedResults)
        IN /\ pc[c] = "score_call"
           /\ job[c].summaryPrompt # NoPrompt
           /\ \E k \in 1..Len(job[c].accumulatedResults) :
                job[c].accumulatedResults[k].trigger_found.isNull
           /\ \E k, l \in 1..Len(want) : k # l /\ want[k] = want[l]
           /\ job[c].specialtyResults # <<>>

\* the names by which a checklist requests a kind of check
KindNames(kind) ==
    CASE kind = "elevation" -> {"elevation"}
      [] kind = "proximity" -> {"proximity"}
      [] kind = "pollution" -> {"pollution"}
      [] kind = "streetLighting" -> {"lighting", "streetlight", "vision"}
      [] kind = "sidewalk" -> {"sidewalk"}
      [] kind = "airQuality" -> {"air", "airquality"}
      [] OTHER -> {"emergency"}

\* the words that follow the first marker on the marker's own line
MarkerLine(checklist) ==
    LET n == Len(checklist)
        markers == {m \in 1..n : IsMarker(checklist[m])}
    IN IF markers = {} THEN <<>>
       ELSE LET m == CHOOSE x \in markers : \A y \in markers : x <= y
                ends == {e \in m..n : e = n \/ checklist[e + 1] = "\n"}
                e == CHOOSE x \in ends : \A y \in ends : x <= y
            IN SubSeq(checklist, m + 1, e)

\* C32: a kind's flag is set exactly when a name of that kind occurs, in
\* any letter case, in the words that follow the marker on its line; a
\* checklist without the marker sets no flag and the words outside that
\* line set none
C32_FlagsFromMarkerLineOnly ==
    \A c \in Clients :
        pc[c] \in {"geocode", "score_call"} =>
            LET line == MarkerLine(job[c].checklist)
            IN \A n \in 1..Len(CheckKinds) :
                job[c].specialtyFlags[CheckKinds[n]]
                    <=> \E name \in KindNames(CheckKinds[n]) : Includes(line, name)

BatchPositions == {"fetch", "analyze", "analyzer_caught", "batch_caught", "batch_write", "delay"}

\* C33: with an empty image list the batch analysis calls no analyzer, waits
\* for no delay and writes nothing: image_results stays empty, and the job
\* goes on with the specialty checks or the scoring
C33_NoImageNoBatchWork ==
    /\ [](\A c \in Clients :
            Started(c) /\ job[c].propertyImages = <<>> =>
                /\ pc[c] \notin BatchPositions
                /\ calls[c].analyzer = 0
                /\ job[c].accumulatedResults = <<>>
                /\ ReadImageResults(Row(c)) = <<>>)
    /\ [][\A c \in Clients :
            /\ pc[c] = "close"
            /\ job[c].propertyImages = <<>>
            /\ pc'[c] # "close"
            /\ thrown'[c] = thrown[c]
            => /\ pc'[c] \in {"geocode", "score_call"}
               /\ evaluations' = evaluations
               /\ job'[c].accumulatedResults = <<>>]_vars

C33_Witness ==
    \E c \in Clients :
        /\ chrome[c] = "closed"
        /\ job[c].propertyImages = <<>>
        /\ thrown[c] = "none"
        /\ pc[c] = "done"
        /\ calls[c].geocode = 1
        /\ calls[c].scoring = 1

\* C37: after the cleanup of the polling effect the chain it had started
\* sends no further request and no longer changes sessionData, and at most
\* one chain is in use at a time, even when a timer or a request of the old
\* chain was pending at the cleanup
C37_CleanedUpChainIsDead ==
    /\ [](Cardinality({k \in DOMAIN page.chains : page.chains[k].current}) <= 1)
    /\ [][/\ \A k \in DOMAIN page.chains :
                ~page.chains[k].current /\ page.chains[k].at # "request"
                    => page'.chains[k].at # "request"
          /\ page'.sessionData # page.sessionData
                => page'.sessionData.id = page'.sessionId]_vars

\* C34: the chain of the mounted component sends requests again after every
\* response that is not terminal and after every failed request, stops only
\* when it has observed 'completed' or 'error' and sends nothing after
\* that; onComplete is called at most once, and only with a completed record
C34_PollsUntilTerminalThenStops ==
    /\ [](\A k \in DOMAIN page.chains :
            page.chains[k].observed # "none" => page.chains[k].at = "stopped")
    /\ [](/\ Len(page.onCompleteCalls) <= 1
          /\ \A n \in DOMAIN page.onCompleteCalls :
                page.onCompleteCalls[n].status = "completed")
    /\ [][\A k \in DOMAIN page.chains :
            /\ page.chains[k].current
            /\ page'.chains[k].current
            /\ page'.chains[k].at = "stopped"
            => page'.chains[k].observed # "none"]_vars

\* C35 (as claimed): when geocoding fails after a kind of check was
\* requested, no check is launched, the empty list is stored as
\* specialty_results, the scoring runs and the finished job has status
\* 'completed'.
C35_GeocodeFailureStillCompletes ==
    \A c \in Clients :
        Finished(c) /\ thrown[c] = "none" /\ calls[c].geocode = 1 /\ calls[c].check = 0
            => /\ job[c].specialtyResults = <<>>
               /\ calls[c].scoring = 1
               /\ Row(c).specialty_results = Val(<<>>)
               /\ Row(c).status = "completed"

\* C36 (as claimed): every entry of image_results has the URL of one of the
\* sourced images, no URL occurs in two entries, and image_results has no
\* more entries than there are sourced images, whatever the number of
\* objects the analyzer returns for a batch.
C36_EntriesNameDistinctSourcedImages ==
    \A c \in Clients :
        Started(c) =>
            LET images == job[c].propertyImages
                stored == ReadImageResults(Row(c))
            IN /\ \A k \in 1..Len(stored) :
                    \E n \in 1..Len(images) : stored[k].image_url = images[n]
               /\ \A k, l \in 1..Len(stored) :
                    k # l => stored[k].image_url # stored[l].image_url
               /\ Len(stored) <= Len(images)

\* C38: when the insert fails the handler answers with a server error and
\* no session id and the job is never started; once a session id has been
\* answered, nothing the job does, its failure included, sends a second
\* answer, and every exception of the job ends in its own catch
C38_InsertFailureAnswersOnceNoJob ==
    /\ [](\A c \in Clients :
            /\ pc[c] = "failed" =>
                  /\ response[c] = [code |-> 500, sessionId |-> 0]
                  /\ job[c] = NoJob
                  /\ calls[c] = NoCalls
            /\ response[c].sessionId # 0 => response[c].code = 200)
    /\ [][\A c \in Clients :
            /\ pc[c] = "insert" /\ pc'[c] # "insert" /\ evaluations' = evaluations
                  => pc'[c] = "failed"
            /\ response[c] # NoResponse => response'[c] = response[c]
            /\ thrown'[c] # thrown[c] => pc'[c] = "error_write"]_vars

C38_Witness ==
    \E c, d \in Clients :
        /\ pc[c] = "failed"
        /\ response[c].code = 500
        /\ response[d].sessionId # 0
        /\ thrown[d] # "none"
        /\ pc[d] = "done"

\* C39 (as claimed): whenever a run has ended, the browser it launched is
\* closed, and on the success path the browser is closed before the first
\* batch analysis call starts.
C39_BrowserClosedOnEveryPath ==
    \A c \in Clients :
        /\ Finished(c) => chrome[c] \in {"none", "closed"}
        /\ calls[c].analyzer > 0 => chrome[c] = "closed"

\* C39 (amended): on every path on which a browser was launched, close is
\* called on it before the run ends, and the browser is closed when the run
\* ends unless the close called by the finally block failed; a run that ends
\* without an exception has closed it, and on the success path it is closed
\* before the first batch analysis call starts.
C39_BrowserCloseCalledOnEveryPath ==
    /\ [](\A c \in Clients :
            /\ Finished(c) /\ thrown[c] = "none" => chrome[c] = "closed"
            /\ Finished(c) /\ chrome[c] = "running" => job[c].browser = "ref"
            /\ calls[c].analyzer > 0 => chrome[c] = "closed")
    /\ [][\A c \in Clients :
            pc[c] # "done" /\ pc'[c] = "done" /\ chrome[c] = "running"
                => pc[c] = "finally_close"]_vars

\* C39 witness: the page threw during scraping and the finally block closed
\* the browser
C39_Witness ==
    \E c \in Clients :
        /\ Finished(c)
        /\ thrown[c] = "scrape"
        /\ job[c].browser = "ref"
        /\ chrome[c] = "closed"
====
